---- MODULE Spec2Model ----
(***************************************************************************)
(* Document / viewport engine of noctua.                                   *)
(*                                                                         *)
(* Part 1: the document variants (RasterDocument, VectorDocument and the   *)
(* paginated variant) with their transform operations, as held by          *)
(* DocumentManager.current_document.                                       *)
(* Part 2: the Viewport (domain/viewport/viewport.rs).                     *)
(*                                                                         *)
(* An image is a record [w, h, px] whose px lists the pixels row by row;   *)
(* a freshly decoded image carries pairwise distinct pixel values, so that *)
(* two images are equal only when every pixel sits at the same place.      *)
(* f32 values of the viewport are exact rationals <<n, d>> extended with   *)
(* +inf = <<1,0>>, -inf = <<-1,0>> and NaN = <<0,0>>; rounding of the f32  *)
(* mantissa is not modelled.                                               *)
(***************************************************************************)
EXTENDS Integers, Sequences, FiniteSets, TLC

VARIABLES document, origin, last, viewport, vlast, probe, mapping,
          collection, clast, disciplined, files, cache, saved, tlast,
          disk, manager, mlast, crop, slast, app, ulast

vars == <<document, origin, last, viewport, vlast, probe, mapping,
          collection, clast, disciplined, files, cache, saved, tlast,
          disk, manager, mlast, crop, slast, app, ulast>>

docVars == <<document, origin, last>>

viewVars == <<viewport, vlast>>

\* the state of the components that neither the document operations nor the
\* viewport touch
auxVars == <<mapping, collection, clast, disciplined, files, cache, saved, tlast,
             disk, manager, mlast, crop, slast, app, ulast>>

selectionVars == <<crop, slast>>

uiVars == <<app, ulast>>

managerVars == <<disk, manager, mlast>>

collectionVars == <<collection, clast, disciplined>>

cacheVars == <<files, cache, saved, tlast>>

(***************************************************************************)
(* Bounds of the model.                                                    *)
(***************************************************************************)
\* largest width of a decoded image / a vector scene
MaxW == 2

\* largest height of a decoded image / a vector scene
MaxH == 1

\* render scales are the integers 1..MaxScale
MaxScale == 3

\* largest pixel count for which the pixmap allocation succeeds
\* (tiny_skia Pixmap::new returns None for a size it cannot represent)
MaxPixmapArea == 8

\* |accumulated fine angle| stays within this many degrees
MaxFine == 180

\* longest run of one repeated operation that `last` counts
MaxRun == 4

\* zooming stops once the scale would exceed MaxZoom (infinity excepted)
MaxZoom == 4

\* panning stops once |pan_x| or |pan_y| would exceed MaxPan
MaxPan == 1

\* a camera zoom starts from a pan offset whose denominator is at most this
MaxPanDen == 1

\* a DocumentCollection holds at most this many paths
MaxPaths == 3

\* file modification times run from second 1 to second MaxMtime
MaxMtime == 2

\* width and height of the canvas a selection is drawn on
MaxCanvas == 20

(***************************************************************************)
(* Pixel buffers (image crate).                                            *)
(***************************************************************************)
MkImage(w, h, F(_, _)) ==
    [w |-> w, h |-> h,
     px |-> [i \in 1..(w * h) |-> F((i - 1) % w, (i - 1) \div w)]]

PixelAt(img, x, y) == img.px[y * img.w + x + 1]

dimensions(img) == <<img.w, img.h>>

Min(a, b) == IF a <= b THEN a ELSE b

Max(a, b) == IF a >= b THEN a ELSE b

\* imageops::rotate90: out.put_pixel(height - 1 - y, x, p)
rotate90(img) ==
    MkImage(img.h, img.w, LAMBDA x, y: PixelAt(img, y, img.h - 1 - x))

\* imageops::rotate180: out.put_pixel(width - 1 - x, height - 1 - y, p)
rotate180(img) ==
    MkImage(img.w, img.h, LAMBDA x, y: PixelAt(img, img.w - 1 - x, img.h - 1 - y))

\* imageops::rotate270: out.put_pixel(y, width - 1 - x, p)
rotate270(img) ==
    MkImage(img.h, img.w, LAMBDA x, y: PixelAt(img, img.w - 1 - y, x))

\* imageops::flip_horizontal: out.put_pixel(width - 1 - x, y, p)
flip_horizontal(img) ==
    MkImage(img.w, img.h, LAMBDA x, y: PixelAt(img, img.w - 1 - x, y))

\* imageops::flip_vertical: out.put_pixel(x, height - 1 - y, p)
flip_vertical(img) ==
    MkImage(img.w, img.h, LAMBDA x, y: PixelAt(img, x, img.h - 1 - y))

\* DynamicImage::crop_imm on a region that lies inside the image
crop_imm(img, x, y, w, h) ==
    MkImage(w, h, LAMBDA i, j: PixelAt(img, x + i, y + j))

\* imageproc rotate_about_center: same dimensions, every pixel resampled;
\* 0 stands for an interpolated value that is none of the decoded pixels
rotate_about_center(img) ==
    MkImage(img.w, img.h, LAMBDA x, y: 0)

\* the image a decoder yields for a file of the given size
DecodedImage(w, h) == MkImage(w, h, LAMBDA x, y: y * w + x + 1)

\* the files that can be opened decode to MaxW x MaxH images
ImageSizes == {<<MaxW, MaxH>>}

(***************************************************************************)
(* Rotation, RotationMode, TransformState (core/document.rs).              *)
(***************************************************************************)
Rotations == {"None", "Cw90", "Cw180", "Cw270"}

FlipDirections == {"Horizontal", "Vertical"}

\* variant: the cycle skips the identity
Rotation_rotate_cw_skip(r) ==
    CASE r = "None" -> "Cw90"
      [] r = "Cw90" -> "Cw180"
      [] r = "Cw180" -> "Cw270"
      [] r = "Cw270" -> "Cw90"

Rotation_rotate_cw(r) ==
    CASE r = "None" -> "Cw90"
      [] r = "Cw90" -> "Cw180"
      [] r = "Cw180" -> "Cw270"
      [] r = "Cw270" -> "None"

Rotation_rotate_ccw(r) ==
    CASE r = "None" -> "Cw270"
      [] r = "Cw270" -> "Cw180"
      [] r = "Cw180" -> "Cw90"
      [] r = "Cw90" -> "None"

to_degrees(r) ==
    CASE r = "None" -> 0
      [] r = "Cw90" -> 90
      [] r = "Cw180" -> 180
      [] r = "Cw270" -> 270

Standard(r) == [mode |-> "Standard", rot |-> r]

Fine(deg) == [mode |-> "Fine", deg |-> deg]

\* Rust's % on signed operands: the remainder takes the sign of the dividend
Rem(a, b) == IF a >= 0 THEN a % b ELSE -((-a) % b)

\* f32::round of deg / 90 for a whole number of degrees (half away from zero)
Round90(deg) ==
    IF deg >= 0 THEN (deg + 45) \div 90 ELSE -((45 - deg) \div 90)

RotationMode_rotate_cw(m) ==
    IF m.mode = "Standard"
    THEN Standard(Rotation_rotate_cw(m.rot))
    ELSE Fine(Rem(m.deg + 90, 360))

RotationMode_rotate_ccw(m) ==
    IF m.mode = "Standard"
    THEN Standard(Rotation_rotate_ccw(m.rot))
    ELSE Fine(Rem(m.deg - 90 + 360, 360))

TransformState_default ==
    [rotation |-> Standard("None"), flip_h |-> FALSE, flip_v |-> FALSE]

(***************************************************************************)
(* Shared pixel helpers (operations/transform.rs).                         *)
(***************************************************************************)
apply_rotation(img, rotation) ==
    CASE rotation = "None" -> img
      [] rotation = "Cw90" -> rotate90(img)
      [] rotation = "Cw180" -> rotate180(img)
      [] rotation = "Cw270" -> rotate270(img)

apply_flip(img, direction) ==
    IF direction = "Horizontal" THEN flip_horizontal(img) ELSE flip_vertical(img)

crop_image(img, x, y, width, height) ==
    IF x >= img.w \/ y >= img.h
    THEN [some |-> FALSE]
    ELSE LET crop_width == Min(width, img.w - x)
             crop_height == Min(height, img.h - y)
         IN IF crop_width = 0 \/ crop_height = 0
            THEN [some |-> FALSE]
            ELSE [some |-> TRUE,
                  image |-> crop_imm(img, x, y, crop_width, crop_height)]

\* variant: width and height are never swapped
dimensions_after_rotation_no_swap(width, height, rotation) == <<width, height>>

dimensions_after_rotation(width, height, rotation) ==
    IF rotation \in {"None", "Cw180"} THEN <<width, height>> ELSE <<height, width>>

(***************************************************************************)
(* RasterDocument (types/raster.rs).                                       *)
(***************************************************************************)
NoDoc == [kind |-> "None"]

Raster_create_image_handle_from_image(img) == img

Raster_open(w, h) ==
    LET img == DecodedImage(w, h)
    IN [kind |-> "Raster",
        document |-> img,
        native_width |-> img.w,
        native_height |-> img.h,
        transform |-> TransformState_default,
        handle |-> Raster_create_image_handle_from_image(img),
        fine_rotation_angle |-> 0]

Raster_dimensions(d) == dimensions(d.document)

\* variant: the transform is reset before the region is validated
Raster_crop_reset_first(d, x, y, width, height) ==
    LET img_width == d.document.w
        img_height == d.document.h
        cleared == [d EXCEPT !.transform = TransformState_default]
    IN IF x >= img_width \/ y >= img_height
       THEN [ok |-> FALSE, doc |-> cleared]
       ELSE LET crop_width == Min(width, img_width - x)
                crop_height == Min(height, img_height - y)
            IN IF crop_width = 0 \/ crop_height = 0
               THEN [ok |-> FALSE, doc |-> cleared]
               ELSE LET img == crop_imm(d.document, x, y, crop_width, crop_height)
                    IN [ok |-> TRUE,
                        doc |-> [d EXCEPT
                            !.document = img,
                            !.native_width = crop_width,
                            !.native_height = crop_height,
                            !.transform = TransformState_default,
                            !.fine_rotation_angle = 0,
                            !.handle = img]]

\* variant: a region reaching past the edge is rejected instead of clamped
Raster_crop_no_clamp(d, x, y, width, height) ==
    LET img_width == d.document.w
        img_height == d.document.h
    IN IF x >= img_width \/ y >= img_height
          \/ x + width > img_width \/ y + height > img_height
          \/ width = 0 \/ height = 0
       THEN [ok |-> FALSE, doc |-> d]
       ELSE LET img == crop_imm(d.document, x, y, width, height)
            IN [ok |-> TRUE,
                doc |-> [d EXCEPT
                    !.document = img,
                    !.native_width = width,
                    !.native_height = height,
                    !.transform = TransformState_default,
                    !.fine_rotation_angle = 0,
                    !.handle = img]]

\* variant: the accumulated transform survives the crop
Raster_crop_keep_transform(d, x, y, width, height) ==
    LET img_width == d.document.w
        img_height == d.document.h
    IN IF x >= img_width \/ y >= img_height
       THEN [ok |-> FALSE, doc |-> d]
       ELSE LET crop_width == Min(width, img_width - x)
                crop_height == Min(height, img_height - y)
            IN IF crop_width = 0 \/ crop_height = 0
               THEN [ok |-> FALSE, doc |-> d]
               ELSE LET img == crop_imm(d.document, x, y, crop_width, crop_height)
                    IN [ok |-> TRUE,
                        doc |-> [d EXCEPT
                            !.document = img,
                            !.native_width = crop_width,
                            !.native_height = crop_height,
                            !.handle = img]]

Raster_crop(d, x, y, width, height) ==
    LET img_width == d.document.w
        img_height == d.document.h
    IN IF x >= img_width \/ y >= img_height
       THEN [ok |-> FALSE, doc |-> d]
       ELSE LET crop_width == Min(width, img_width - x)
                crop_height == Min(height, img_height - y)
            IN IF crop_width = 0 \/ crop_height = 0
               THEN [ok |-> FALSE, doc |-> d]
               ELSE LET img == crop_imm(d.document, x, y, crop_width, crop_height)
                    IN [ok |-> TRUE,
                        doc |-> [d EXCEPT
                            !.document = img,
                            !.native_width = crop_width,
                            !.native_height = crop_height,
                            !.transform = TransformState_default,
                            !.fine_rotation_angle = 0,
                            !.handle = Raster_create_image_handle_from_image(img)]]

Raster_render(d, scale) ==
    [handle |-> d.handle,
     width |-> Raster_dimensions(d)[1],
     height |-> Raster_dimensions(d)[2]]

Raster_info(d) ==
    [width |-> d.native_width, height |-> d.native_height, format |-> "Raster"]

RotationOfDiff(diff_deg) ==
    CASE diff_deg = 90 -> "Cw90"
      [] diff_deg = 180 -> "Cw180"
      [] diff_deg = 270 -> "Cw270"

\* variant: the requested rotation is applied to the pixels as they are
Raster_rotate_absolute(d, rotation) ==
    LET fine == d.transform.rotation.mode = "Fine"
        img == apply_rotation(d.document, rotation)
    IN [d EXCEPT
        !.fine_rotation_angle = IF fine THEN 0 ELSE @,
        !.document = img,
        !.transform.rotation = Standard(rotation),
        !.handle = Raster_create_image_handle_from_image(img)]

\* variant: the accumulated fine angle survives a quantized rotation
Raster_rotate_keep_fine(d, rotation) ==
    LET fine == d.transform.rotation.mode = "Fine"
        current_deg == IF fine THEN 0 ELSE to_degrees(d.transform.rotation.rot)
        new_deg == to_degrees(rotation)
        diff_deg == (new_deg - current_deg + 360) % 360
        img == IF diff_deg # 0
               THEN apply_rotation(d.document, RotationOfDiff(diff_deg))
               ELSE d.document
    IN [d EXCEPT
        !.document = img,
        !.transform.rotation = Standard(rotation),
        !.handle = Raster_create_image_handle_from_image(img)]

Raster_rotate(d, rotation) ==
    LET fine == d.transform.rotation.mode = "Fine"
        current_deg == IF fine THEN 0 ELSE to_degrees(d.transform.rotation.rot)
        new_deg == to_degrees(rotation)
        diff_deg == (new_deg - current_deg + 360) % 360
        img == IF diff_deg # 0
               THEN apply_rotation(d.document, RotationOfDiff(diff_deg))
               ELSE d.document
    IN [d EXCEPT
        !.fine_rotation_angle = IF fine THEN 0 ELSE @,
        !.document = img,
        !.transform.rotation = Standard(rotation),
        !.handle = Raster_create_image_handle_from_image(img)]

\* variant: the pixels are mirrored only when the flag was clear
Raster_flip_once(d, direction) ==
    LET flag == IF direction = "Horizontal" THEN d.transform.flip_h ELSE d.transform.flip_v
        img == IF flag THEN d.document ELSE apply_flip(d.document, direction)
    IN [d EXCEPT
        !.document = img,
        !.transform.flip_h = IF direction = "Horizontal" THEN ~@ ELSE @,
        !.transform.flip_v = IF direction = "Vertical" THEN ~@ ELSE @,
        !.handle = img]

Raster_flip(d, direction) ==
    LET img == apply_flip(d.document, direction)
    IN [d EXCEPT
        !.document = img,
        !.transform.flip_h = IF direction = "Horizontal" THEN ~@ ELSE @,
        !.transform.flip_v = IF direction = "Vertical" THEN ~@ ELSE @,
        !.handle = Raster_create_image_handle_from_image(img)]

Raster_rotate_fine(d, angle_degrees) ==
    LET img == rotate_about_center(d.document)
        angle == d.fine_rotation_angle + angle_degrees
    IN [d EXCEPT
        !.document = img,
        !.fine_rotation_angle = angle,
        !.transform.rotation = Fine(angle),
        !.handle = Raster_create_image_handle_from_image(img)]

Raster_reset_fine_rotation(d) ==
    [d EXCEPT
        !.fine_rotation_angle = 0,
        !.transform.rotation = Standard("None")]

\* DynamicImage::resize_exact: an image of the requested size; its pixels
\* are interpolated values, written 0 as those of rotate_about_center
resize_exact(img, nwidth, nheight) == MkImage(nwidth, nheight, LAMBDA x, y: 0)

\* variant: the display handle is not rebuilt
Raster_resize_to_format_stale_handle(d, target_width, target_height) ==
    [d EXCEPT !.document = resize_exact(d.document, target_width, target_height)]

Raster_resize_to_format(d, target_width, target_height) ==
    LET resized(img) ==
            [d EXCEPT
                !.document = img,
                !.handle = Raster_create_image_handle_from_image(img)]
    IN resized(resize_exact(d.document, target_width, target_height))

(***************************************************************************)
(* VectorDocument (types/vector.rs).  The parsed scene is modelled by its  *)
(* rasterization at native size; rendering at an integer scale repeats     *)
(* each scene pixel scale x scale times.                                   *)
(***************************************************************************)
MIN_PIXMAP_SIZE == 1

PixmapFits(width, height) == width > 0 /\ height > 0 /\ width * height <= MaxPixmapArea

render_document(scene, native_width, native_height, scale, transform) ==
    LET width == Max(native_width * scale, MIN_PIXMAP_SIZE)
        height == Max(native_height * scale, MIN_PIXMAP_SIZE)
    IN IF ~PixmapFits(width, height)
       THEN [ok |-> FALSE]
       ELSE LET \* the steps in program order, each taking the buffer of the one before
                output(image) ==
                    [ok |-> TRUE, image |-> image, width |-> image.w, height |-> image.h]
                rotated(flipped_v) ==
                    output(IF transform.rotation.mode = "Standard"
                           THEN apply_rotation(flipped_v, transform.rotation.rot)
                           ELSE flipped_v)
                flipped_vertically(flipped_h) ==
                    rotated(IF transform.flip_v
                            THEN apply_flip(flipped_h, "Vertical") ELSE flipped_h)
                flipped_horizontally(pixmap) ==
                    flipped_vertically(IF transform.flip_h
                                       THEN apply_flip(pixmap, "Horizontal") ELSE pixmap)
            IN flipped_horizontally(
                   MkImage(width, height,
                       LAMBDA x, y: PixelAt(scene, x \div scale, y \div scale)))

Vector_open(w, h) ==
    LET scene == DecodedImage(w, h)
        loaded(r) ==
            IF ~r.ok
            THEN [ok |-> FALSE]
            ELSE [ok |-> TRUE,
                  doc |-> [kind |-> "Vector",
                           document |-> scene,
                           native_width |-> w,
                           native_height |-> h,
                           current_scale |-> 1,
                           transform |-> TransformState_default,
                           rendered |-> r.image,
                           handle |-> r.image,
                           width |-> r.width,
                           height |-> r.height]]
    IN loaded(render_document(scene, w, h, 1, TransformState_default))

\* variant: the crop is recorded as the new native size, as a raster crop is
Vector_crop_native(d, x, y, width, height) ==
    LET img_width == d.rendered.w
        img_height == d.rendered.h
    IN IF x >= img_width \/ y >= img_height
       THEN [ok |-> FALSE, doc |-> d]
       ELSE LET crop_width == Min(width, img_width - x)
                crop_height == Min(height, img_height - y)
            IN IF crop_width = 0 \/ crop_height = 0
               THEN [ok |-> FALSE, doc |-> d]
               ELSE LET img == crop_imm(d.rendered, x, y, crop_width, crop_height)
                    IN [ok |-> TRUE,
                        doc |-> [d EXCEPT
                            !.rendered = img,
                            !.native_width = crop_width,
                            !.native_height = crop_height,
                            !.width = crop_width,
                            !.height = crop_height,
                            !.handle = img]]

Vector_crop(d, x, y, width, height) ==
    LET img_width == d.rendered.w
        img_height == d.rendered.h
    IN IF x >= img_width \/ y >= img_height
       THEN [ok |-> FALSE, doc |-> d]
       ELSE LET crop_width == Min(width, img_width - x)
                crop_height == Min(height, img_height - y)
            IN IF crop_width = 0 \/ crop_height = 0
               THEN [ok |-> FALSE, doc |-> d]
               ELSE LET img == crop_imm(d.rendered, x, y, crop_width, crop_height)
                    IN [ok |-> TRUE,
                        doc |-> [d EXCEPT
                            !.rendered = img,
                            !.width = crop_width,
                            !.height = crop_height,
                            !.handle = img]]

Vector_render_at_scale(d, scale) ==
    IF d.current_scale = scale
    THEN d
    ELSE LET stored(r) ==
                 IF r.ok
                 THEN [d EXCEPT
                     !.current_scale = scale,
                     !.rendered = r.image,
                     !.width = r.width,
                     !.height = r.height,
                     !.handle = r.image]
                 ELSE d
         IN stored(render_document(d.document, d.native_width, d.native_height,
                                   scale, d.transform))

Vector_rerender(d) ==
    LET stored(r) ==
            IF r.ok
            THEN [d EXCEPT
                !.rendered = r.image,
                !.width = r.width,
                !.height = r.height,
                !.handle = r.image]
            ELSE d
    IN stored(render_document(d.document, d.native_width, d.native_height,
                              d.current_scale, d.transform))

Vector_render(d, scale) ==
    LET output(d2) ==
            [doc |-> d2,
             out |-> [handle |-> d2.handle, width |-> d2.width, height |-> d2.height]]
    IN output(Vector_render_at_scale(d, scale))

Vector_info(d) ==
    [width |-> d.native_width, height |-> d.native_height, format |-> "SVG"]

\* variant: the recorded rotation changes and the rasterization is kept
Vector_rotate_no_rerender(d, rotation) ==
    [d EXCEPT !.transform.rotation = Standard(rotation)]

Vector_rotate(d, rotation) ==
    Vector_rerender([d EXCEPT !.transform.rotation = Standard(rotation)])

Vector_flip(d, direction) ==
    Vector_rerender([d EXCEPT
        !.transform.flip_h = IF direction = "Horizontal" THEN ~@ ELSE @,
        !.transform.flip_v = IF direction = "Vertical" THEN ~@ ELSE @])

(***************************************************************************)
(* The paginated variant and the DocumentContent dispatch                  *)
(* (types/portable.rs, core/content.rs): rotate and flip follow the        *)
(* contract of the vector variant, state plus re-render.                   *)
(***************************************************************************)
Portable_open(w, h) ==
    LET loaded(v) ==
            IF v.ok THEN [ok |-> TRUE, doc |-> [v.doc EXCEPT !.kind = "Portable"]]
            ELSE [ok |-> FALSE]
    IN loaded(Vector_open(w, h))

Portable_rotate(d, rotation) == Vector_rotate(d, rotation)

Portable_flip(d, direction) == Vector_flip(d, direction)

DocumentContent_kind(d) == d.kind

DocumentContent_transform_state(d) == d.transform

DocumentContent_rotate(d, rotation) ==
    CASE d.kind = "Raster" -> Raster_rotate(d, rotation)
      [] d.kind = "Vector" -> Vector_rotate(d, rotation)
      [] d.kind = "Portable" -> Portable_rotate(d, rotation)

DocumentContent_flip(d, direction) ==
    CASE d.kind = "Raster" -> Raster_flip(d, direction)
      [] d.kind = "Vector" -> Vector_flip(d, direction)
      [] d.kind = "Portable" -> Portable_flip(d, direction)

\* render(scale): the document after the call and the RenderOutput
DocumentContent_render(d, scale) ==
    IF d.kind = "Raster"
    THEN [doc |-> d, out |-> Raster_render(d, scale)]
    ELSE Vector_render(d, scale)

DocumentContent_info(d) ==
    IF d.kind = "Raster" THEN Raster_info(d) ELSE Vector_info(d)

\* dimensions(): the size of the currently displayable pixel data as reported
DocumentContent_dimensions(d) ==
    IF d.kind = "Raster" THEN Raster_dimensions(d) ELSE <<d.width, d.height>>

\* the pixel data behind the display handle
DocumentContent_pixels(d) ==
    IF d.kind = "Raster" THEN d.document ELSE d.rendered

(***************************************************************************)
(* High-level operations (operations/transform.rs).                        *)
(***************************************************************************)
RotationOfNormalized(normalized) ==
    CASE normalized = 0 -> "None"
      [] normalized = 90 -> "Cw90"
      [] normalized = 180 -> "Cw180"
      [] normalized = 270 -> "Cw270"
      [] OTHER -> "None"

rotate_document_cw(d) ==
    LET new_rotation_mode == RotationMode_rotate_cw(DocumentContent_transform_state(d).rotation)
    IN IF new_rotation_mode.mode = "Standard"
       THEN DocumentContent_rotate(d, new_rotation_mode.rot)
       ELSE LET normalized == Rem(Round90(new_rotation_mode.deg) * 90, 360)
            IN DocumentContent_rotate(d, RotationOfNormalized(normalized))

rotate_document_ccw(d) ==
    LET new_rotation_mode == RotationMode_rotate_ccw(DocumentContent_transform_state(d).rotation)
    IN IF new_rotation_mode.mode = "Standard"
       THEN DocumentContent_rotate(d, new_rotation_mode.rot)
       ELSE LET normalized == Rem(Round90(new_rotation_mode.deg) * 90 + 360, 360)
            IN DocumentContent_rotate(d, RotationOfNormalized(normalized))

flip_document_horizontal(d) == DocumentContent_flip(d, "Horizontal")

flip_document_vertical(d) == DocumentContent_flip(d, "Vertical")

rotate_document_to(d, rotation) == DocumentContent_rotate(d, rotation)

\* variant: the flips are not undone
reset_document_transforms_rotation_only(d) == DocumentContent_rotate(d, "None")

reset_document_transforms(d) ==
    LET \* state is read once, after the rotation and before either flip
        unflip_v(d2, state) ==
            IF state.flip_v THEN DocumentContent_flip(d2, "Vertical") ELSE d2
        unflip_h(d1, state) ==
            unflip_v(IF state.flip_h THEN DocumentContent_flip(d1, "Horizontal") ELSE d1,
                     state)
        unrotated(d1) == unflip_h(d1, DocumentContent_transform_state(d1))
    IN unrotated(DocumentContent_rotate(d, "None"))

(***************************************************************************)
(* CropDocumentCommand (application/commands/crop_document.rs).            *)
(***************************************************************************)
\* variant: the kind check is missing, a non-raster document falls through to Ok
CropDocumentCommand_execute_unchecked(d, x, y, width, height) ==
    IF d.kind = "None"
    THEN [ok |-> FALSE, doc |-> d]
    ELSE IF DocumentContent_kind(d) # "Raster"
    THEN [ok |-> TRUE, doc |-> d]
    ELSE Raster_crop(d, x, y, width, height)

CropDocumentCommand_execute(d, x, y, width, height) ==
    IF d.kind = "None"
    THEN [ok |-> FALSE, doc |-> d]
    ELSE IF DocumentContent_kind(d) # "Raster"
    THEN [ok |-> FALSE, doc |-> d]
    ELSE Raster_crop(d, x, y, width, height)

CropDocumentCommand_can_execute(d) ==
    IF d.kind = "None" THEN FALSE ELSE DocumentContent_kind(d) = "Raster"

(***************************************************************************)
(* State of the document specification.                                    *)
(*   document  DocumentManager.current_document (NoDoc when none is open)  *)
(*   origin    history: the image as loaded, or as last cropped, and       *)
(*             whether the pixels still derive from it by exact flips and  *)
(*             quarter turns only (exact), by quarter turns only           *)
(*             (unflipped)                                                 *)
(*   last      history: the last operation and its outcome; for a rotate   *)
(*             or flip how many times in a row it ran and the document     *)
(*             before the first call of that run; for a crop command the   *)
(*             document before it and, on a raster, the requested region   *)
(***************************************************************************)
NoOrigin == [exact |-> FALSE, unflipped |-> FALSE]

NoLast == [op |-> "none", arg |-> <<>>, ok |-> TRUE, n |-> 0, pre |-> NoDoc]

Track(op, arg, ok) ==
    IF last.op = op /\ last.arg = arg /\ last.n < MaxRun
    THEN [last EXCEPT !.n = @ + 1, !.ok = ok]
    ELSE [op |-> op, arg |-> arg, ok |-> ok, n |-> 1, pre |-> document]

Note(op, arg, ok) == [op |-> op, arg |-> arg, ok |-> ok, n |-> 1, pre |-> NoDoc]

DocumentKinds == {"Raster", "Vector", "Portable"}

FineAngles == {-45, 45}

\* crop requests: an offset inside the image, on its far edge or one step in,
\* with an extent that is degenerate, one pixel, or as large as the image
CropOffsets == {<<0, 0>>, <<1, 0>>, <<0, 1>>, <<1, 1>>, <<MaxW, 0>>, <<0, MaxH>>}

CropExtents == {<<0, 1>>, <<1, 0>>, <<1, 1>>, <<MaxW, MaxH>>}

Scales == 1..MaxScale

Abs(a) == IF a >= 0 THEN a ELSE -a

\* the loader's result for a file of the given kind and size
Loader_load(kind, w, h) ==
    CASE kind = "Raster" -> [ok |-> TRUE, doc |-> Raster_open(w, h)]
      [] kind = "Vector" -> Vector_open(w, h)
      [] kind = "Portable" -> Portable_open(w, h)

DocInit ==
    /\ document = NoDoc
    /\ origin = NoOrigin
    /\ last = NoLast

ViewIdle == UNCHANGED <<viewVars, probe, auxVars>>

OpenDocument(kind, w, h) ==
    LET opened(r) ==
            /\ document' = IF r.ok THEN r.doc ELSE document
            /\ origin' = IF r.ok
                         THEN [image |-> DecodedImage(w, h), exact |-> TRUE,
                               unflipped |-> TRUE]
                         ELSE origin
            /\ last' = Note("open", <<kind, w, h>>, r.ok)
            /\ ViewIdle
    IN opened(Loader_load(kind, w, h))

CloseDocument ==
    /\ document.kind # "None"
    /\ document' = NoDoc
    /\ origin' = NoOrigin
    /\ last' = Note("close", <<>>, TRUE)
    /\ ViewIdle

RotateCw ==
    /\ document.kind # "None"
    /\ document' = rotate_document_cw(document)
    /\ last' = Track("rotate_cw", <<>>, TRUE)
    /\ UNCHANGED origin
    /\ ViewIdle

RotateCcw ==
    /\ document.kind # "None"
    /\ document' = rotate_document_ccw(document)
    /\ last' = Track("rotate_ccw", <<>>, TRUE)
    /\ UNCHANGED origin
    /\ ViewIdle

RotateTo(rotation) ==
    /\ document.kind # "None"
    /\ document' = rotate_document_to(document, rotation)
    /\ last' = Note("rotate_to",
                     <<rotation, DocumentContent_transform_state(document).rotation>>,
                     TRUE)
    /\ UNCHANGED origin
    /\ ViewIdle

FlipHorizontal ==
    /\ document.kind # "None"
    /\ document' = flip_document_horizontal(document)
    /\ last' = Track("flip", <<"Horizontal">>, TRUE)
    /\ origin' = [origin EXCEPT !.unflipped = FALSE]
    /\ ViewIdle

FlipVertical ==
    /\ document.kind # "None"
    /\ document' = flip_document_vertical(document)
    /\ last' = Track("flip", <<"Vertical">>, TRUE)
    /\ origin' = [origin EXCEPT !.unflipped = FALSE]
    /\ ViewIdle

ResetTransforms ==
    /\ document.kind # "None"
    /\ document' = reset_document_transforms(document)
    /\ last' = Note("reset", <<DocumentContent_transform_state(document)>>, TRUE)
    /\ UNCHANGED origin
    /\ ViewIdle

RotateFine(angle) ==
    /\ document.kind = "Raster"
    /\ Abs(document.fine_rotation_angle + angle) <= MaxFine
    /\ document' = Raster_rotate_fine(document, angle)
    /\ origin' = NoOrigin
    /\ last' = Note("rotate_fine", <<angle>>, TRUE)
    /\ ViewIdle

CropExecute(x, y, width, height) ==
    LET r == CropDocumentCommand_execute(document, x, y, width, height)
    IN /\ document' = r.doc
       /\ origin' = IF r.ok
                    THEN [image |-> r.doc.document, exact |-> TRUE, unflipped |-> TRUE]
                    ELSE origin
       /\ last' = [op |-> "crop",
                   arg |-> IF document.kind = "Raster" THEN <<x, y, width, height>> ELSE <<>>,
                   ok |-> r.ok, n |-> 1, pre |-> document]
       /\ ViewIdle

VectorCrop(x, y, width, height) ==
    /\ document.kind = "Vector"
    /\ LET r == Vector_crop(document, x, y, width, height)
       IN /\ document' = r.doc
          /\ last' = Note("vector_crop", <<>>, r.ok)
    /\ UNCHANGED origin
    /\ ViewIdle

Render(scale) ==
    /\ document.kind # "None"
    /\ document' = DocumentContent_render(document, scale).doc
    /\ last' = Note("render",
                     <<scale,
                       DocumentContent_dimensions(document),
                       IF document.kind = "Raster" THEN 1 ELSE document.current_scale>>,
                     TRUE)
    /\ UNCHANGED origin
    /\ ViewIdle

\* Transformable::flip called on the document itself
Flip(direction) ==
    /\ document.kind # "None"
    /\ document' = DocumentContent_flip(document, direction)
    /\ last' = Note("flip_direct", <<direction>>, TRUE)
    /\ origin' = [origin EXCEPT !.unflipped = FALSE]
    /\ ViewIdle

ResetFineRotation ==
    /\ document.kind = "Raster"
    /\ document' = Raster_reset_fine_rotation(document)
    /\ origin' = NoOrigin
    /\ last' = Note("reset_fine_rotation", <<document.transform.rotation>>, TRUE)
    /\ ViewIdle

\* the sizes resize_to_format is asked for
ResizeTargets == {<<1, 1>>, <<MaxH, MaxW>>}

ResizeToFormat(target_width, target_height) ==
    /\ document.kind = "Raster"
    /\ document' = Raster_resize_to_format(document, target_width, target_height)
    /\ origin' = NoOrigin
    /\ last' = Note("resize_to_format", <<target_width, target_height>>, TRUE)
    /\ ViewIdle

\* RasterDocument::crop called on the document itself
RasterCrop(x, y, width, height) ==
    /\ document.kind = "Raster"
    /\ LET done(r) ==
               /\ document' = r.doc
               /\ origin' = IF r.ok
                            THEN [image |-> r.doc.document, exact |-> TRUE,
                                  unflipped |-> TRUE]
                            ELSE origin
               /\ last' = Note("raster_crop", <<>>, r.ok)
       IN done(Raster_crop(document, x, y, width, height))
    /\ ViewIdle

\* the operations of the document types called one by one, the raster-only
\* ones included
TransformNext ==
    \/ \E kind \in DocumentKinds, sz \in ImageSizes: OpenDocument(kind, sz[1], sz[2])
    \/ \E rotation \in Rotations: RotateTo(rotation)
    \/ \E direction \in FlipDirections: Flip(direction)
    \/ \E angle \in FineAngles: RotateFine(angle)
    \/ ResetFineRotation
    \/ \E sz \in ResizeTargets: ResizeToFormat(sz[1], sz[2])
    \/ \E o \in CropOffsets, e \in CropExtents: RasterCrop(o[1], o[2], e[1], e[2])
    \/ \E o \in CropOffsets, e \in CropExtents: VectorCrop(o[1], o[2], e[1], e[2])
    \/ \E scale \in Scales: Render(scale)

DocNext ==
    \/ \E kind \in DocumentKinds, sz \in ImageSizes: OpenDocument(kind, sz[1], sz[2])
    \/ CloseDocument
    \/ RotateCw
    \/ RotateCcw
    \/ \E rotation \in Rotations: RotateTo(rotation)
    \/ FlipHorizontal
    \/ FlipVertical
    \/ ResetTransforms
    \/ \E angle \in FineAngles: RotateFine(angle)
    \/ \E o \in CropOffsets, e \in CropExtents: CropExecute(o[1], o[2], e[1], e[2])
    \/ \E o \in CropOffsets, e \in CropExtents: VectorCrop(o[1], o[2], e[1], e[2])
    \/ \E scale \in Scales: Render(scale)

(***************************************************************************)
(* f32 arithmetic on extended rationals.                                   *)
(***************************************************************************)
RECURSIVE GCD(_, _)
GCD(a, b) == IF b = 0 THEN a ELSE GCD(b, a % b)

Sgn(n) == IF n > 0 THEN 1 ELSE IF n < 0 THEN -1 ELSE 0

RNorm(n, d) ==
    IF d = 0
    THEN <<Sgn(n), 0>>
    ELSE LET g == GCD(Abs(n), Abs(d))
             s == IF d < 0 THEN -1 ELSE 1
         IN <<(s * n) \div g, (s * d) \div g>>

R(n) == <<n, 1>>

NaN == <<0, 0>>

PosInf == <<1, 0>>

NegInf == <<-1, 0>>

IsNaN(a) == a = NaN

IsFinite(a) == a[2] # 0

RMul(a, b) == RNorm(a[1] * b[1], a[2] * b[2])

RRecip(a) == IF a[1] < 0 THEN <<-a[2], -a[1]>> ELSE <<a[2], a[1]>>

RDiv(a, b) == RMul(a, RRecip(b))

RAdd(a, b) ==
    IF IsNaN(a) \/ IsNaN(b) THEN NaN
    ELSE IF ~IsFinite(a) /\ ~IsFinite(b) THEN (IF a = b THEN a ELSE NaN)
    ELSE IF ~IsFinite(a) THEN a
    ELSE IF ~IsFinite(b) THEN b
    ELSE RNorm(a[1] * b[2] + b[1] * a[2], a[2] * b[2])

RNeg(a) == <<-a[1], a[2]>>

RSub(a, b) == RAdd(a, RNeg(b))

\* f32::round of a finite value: to the nearest integer, halves away from zero
RRound(a) ==
    IF a[1] >= 0
    THEN (2 * a[1] + a[2]) \div (2 * a[2])
    ELSE -((2 * (-a[1]) + a[2]) \div (2 * a[2]))

\* `as u32` of a rounded f32: NaN and negative values become 0 (the values
\* cast in this program were clamped to a finite size before)
AsU32(a) == IF ~IsFinite(a) \/ a[1] < 0 THEN 0 ELSE RRound(a)

RLt(a, b) ==
    /\ ~IsNaN(a)
    /\ ~IsNaN(b)
    /\ IF ~IsFinite(a) /\ ~IsFinite(b) THEN a[1] < b[1]
       ELSE a[1] * b[2] < b[1] * a[2]

RLe(a, b) == ~IsNaN(a) /\ ~IsNaN(b) /\ ~RLt(b, a)

\* f32::max and f32::min: a NaN operand yields the other operand
RMax(a, b) == IF IsNaN(a) THEN b ELSE IF IsNaN(b) THEN a ELSE IF RLt(a, b) THEN b ELSE a

RMin(a, b) == IF IsNaN(a) THEN b ELSE IF IsNaN(b) THEN a ELSE IF RLt(b, a) THEN b ELSE a

(***************************************************************************)
(* Viewport (domain/viewport/viewport.rs).                                 *)
(***************************************************************************)
MinScale == <<1, 100>>

Viewport_new ==
    [view_mode |-> "Fit",
     pan_x |-> R(0),
     pan_y |-> R(0),
     scale |-> R(1),
     canvas_width |-> R(0),
     canvas_height |-> R(0),
     document_width |-> R(0),
     document_height |-> R(0)]

Viewport_calculate_fit_scale(v) ==
    IF v.document_width = R(0) \/ v.document_height = R(0)
    THEN R(1)
    ELSE LET width_scale == RDiv(v.canvas_width, v.document_width)
             height_scale == RDiv(v.canvas_height, v.document_height)
         IN RMin(width_scale, height_scale)

Viewport_update_scale_if_fit(v) ==
    IF v.view_mode = "Fit"
    THEN [v EXCEPT !.scale = Viewport_calculate_fit_scale(v)]
    ELSE v

Viewport_set_canvas_size(v, width, height) ==
    Viewport_update_scale_if_fit(
        [v EXCEPT !.canvas_width = width, !.canvas_height = height])

\* variant: the document size is stored without refreshing the fit scale
Viewport_set_document_size_stale(v, width, height) ==
    [v EXCEPT !.document_width = width, !.document_height = height]

Viewport_set_document_size(v, width, height) ==
    Viewport_update_scale_if_fit(
        [v EXCEPT !.document_width = width, !.document_height = height])

Viewport_reset_pan(v) == [v EXCEPT !.pan_x = R(0), !.pan_y = R(0)]

Viewport_set_view_mode(v, mode) ==
    LET v1 == [v EXCEPT !.view_mode = mode]
    IN CASE mode = "Fit" -> Viewport_update_scale_if_fit(Viewport_reset_pan(v1))
         [] mode = "ActualSize" -> [Viewport_reset_pan(v1) EXCEPT !.scale = R(1)]
         [] mode = "Custom" -> v1

\* variant: the requested scale is stored without the floor
Viewport_set_scale_no_floor(v, scale) ==
    [v EXCEPT !.scale = scale, !.view_mode = "Custom"]

Viewport_set_scale(v, scale) ==
    [v EXCEPT !.scale = RMax(scale, MinScale), !.view_mode = "Custom"]

Viewport_zoom_in(v, factor) == Viewport_set_scale(v, RMul(v.scale, factor))

Viewport_zoom_out(v, factor) == Viewport_set_scale(v, RDiv(v.scale, factor))

Viewport_set_pan(v, x, y) ==
    [v EXCEPT !.pan_x = x, !.pan_y = y,
              !.view_mode = IF @ = "Fit" THEN "Custom" ELSE @]

\* variant: panning leaves the Fit mode in place
Viewport_pan_by_keep_mode(v, dx, dy) ==
    [v EXCEPT !.pan_x = RAdd(@, dx), !.pan_y = RAdd(@, dy)]

Viewport_pan_by(v, dx, dy) ==
    [v EXCEPT !.pan_x = RAdd(@, dx), !.pan_y = RAdd(@, dy),
              !.view_mode = IF @ = "Fit" THEN "Custom" ELSE @]

Viewport_scaled_document_size(v) ==
    <<RMul(v.document_width, v.scale), RMul(v.document_height, v.scale)>>

Viewport_screen_to_document(v, screen_x, screen_y) ==
    LET scaled == Viewport_scaled_document_size(v)
        doc_x == RAdd(RDiv(RSub(v.canvas_width, scaled[1]), R(2)), v.pan_x)
        doc_y == RAdd(RDiv(RSub(v.canvas_height, scaled[2]), R(2)), v.pan_y)
        rel_x == RSub(screen_x, doc_x)
        rel_y == RSub(screen_y, doc_y)
    IN <<RDiv(rel_x, v.scale), RDiv(rel_y, v.scale)>>

\* variant: the pan offset is left out of the document position
Viewport_document_to_screen_no_pan(v, doc_x, doc_y) ==
    LET scaled == Viewport_scaled_document_size(v)
        offset_x == RDiv(RSub(v.canvas_width, scaled[1]), R(2))
        offset_y == RDiv(RSub(v.canvas_height, scaled[2]), R(2))
    IN <<RAdd(offset_x, RMul(doc_x, v.scale)), RAdd(offset_y, RMul(doc_y, v.scale))>>

Viewport_document_to_screen(v, doc_x, doc_y) ==
    LET scaled == Viewport_scaled_document_size(v)
        offset_x == RAdd(RDiv(RSub(v.canvas_width, scaled[1]), R(2)), v.pan_x)
        offset_y == RAdd(RDiv(RSub(v.canvas_height, scaled[2]), R(2)), v.pan_y)
    IN <<RAdd(offset_x, RMul(doc_x, v.scale)), RAdd(offset_y, RMul(doc_y, v.scale))>>

Viewport_reset(v) ==
    Viewport_update_scale_if_fit(
        [v EXCEPT !.view_mode = "Fit", !.pan_x = R(0), !.pan_y = R(0)])

(***************************************************************************)
(* State of the viewport specification.                                    *)
(*   viewport  the Viewport                                                *)
(*   vlast     history: the name of the last Viewport method called        *)
(*   probe     history: what the last coordinate conversion or camera zoom  *)
(*             was given and returned, while the viewport is still as that  *)
(*             call left it                                                 *)
(***************************************************************************)
ViewModes == {"Fit", "ActualSize", "Custom"}

CanvasSizes == {<<R(0), R(0)>>, <<R(4), R(2)>>, <<R(2), R(2)>>}

DocumentSizes == {<<R(0), R(0)>>, <<R(2), R(4)>>, <<R(4), R(4)>>, <<R(0), R(3)>>}

ScaleArgs == {R(0), R(-1), <<1, 200>>, <<1, 2>>, R(1), R(2), NaN, PosInf, NegInf}

ZoomFactors == {R(0), R(-1), <<1, 2>>, R(2), NaN}

PanArgs == {<<R(0), R(0)>>, <<R(1), R(-1)>>}

PanDeltas == {<<R(1), R(0)>>, <<R(0), R(-1)>>, <<R(-1), R(1)>>}

ScaleInRange(s) == ~IsFinite(s) \/ RLe(s, R(MaxZoom))

PanInRange(p) == IsFinite(p) /\ RLe(R(-MaxPan), p) /\ RLe(p, R(MaxPan))

NoProbe == [op |-> "none"]

ViewInit ==
    /\ viewport = Viewport_new
    /\ vlast = "new"
    /\ probe = NoProbe

\* a viewport method leaves the document alone and ends the life of the
\* last probe, which described the viewport as it was
DocIdle == UNCHANGED <<docVars, auxVars>> /\ probe' = NoProbe

SetCanvasSize(width, height) ==
    /\ viewport' = Viewport_set_canvas_size(viewport, width, height)
    /\ vlast' = "set_canvas_size"
    /\ DocIdle

SetDocumentSize(width, height) ==
    /\ viewport' = Viewport_set_document_size(viewport, width, height)
    /\ vlast' = "set_document_size"
    /\ DocIdle

SetViewMode(mode) ==
    /\ viewport' = Viewport_set_view_mode(viewport, mode)
    /\ vlast' = "set_view_mode"
    /\ DocIdle

SetScale(scale) ==
    /\ viewport' = Viewport_set_scale(viewport, scale)
    /\ vlast' = "set_scale"
    /\ DocIdle

ZoomIn(factor) ==
    /\ ScaleInRange(Viewport_zoom_in(viewport, factor).scale)
    /\ viewport' = Viewport_zoom_in(viewport, factor)
    /\ vlast' = "zoom_in"
    /\ DocIdle

ZoomOut(factor) ==
    /\ ScaleInRange(Viewport_zoom_out(viewport, factor).scale)
    /\ viewport' = Viewport_zoom_out(viewport, factor)
    /\ vlast' = "zoom_out"
    /\ DocIdle

SetPan(x, y) ==
    /\ viewport' = Viewport_set_pan(viewport, x, y)
    /\ vlast' = "set_pan"
    /\ DocIdle

PanBy(dx, dy) ==
    /\ PanInRange(RAdd(viewport.pan_x, dx))
    /\ PanInRange(RAdd(viewport.pan_y, dy))
    /\ viewport' = Viewport_pan_by(viewport, dx, dy)
    /\ vlast' = "pan_by"
    /\ DocIdle

ResetPan ==
    /\ viewport' = Viewport_reset_pan(viewport)
    /\ vlast' = "reset_pan"
    /\ DocIdle

ResetViewport ==
    /\ viewport' = Viewport_reset(viewport)
    /\ vlast' = "reset"
    /\ DocIdle

\* Camera::pan_with_speed (domain/viewport/camera.rs), which pans through
\* Viewport::pan_by
PanDirections == {"Left", "Right", "Up", "Down"}

PanSpeeds == {"Slow", "Normal", "Fast"}

PanSpeed_multiplier(speed) ==
    CASE speed = "Slow" -> <<1, 10>>
      [] speed = "Normal" -> <<1, 4>>
      [] speed = "Fast" -> <<1, 2>>

Camera_pan_with_speed(v, direction, speed) ==
    LET multiplier == PanSpeed_multiplier(speed)
        d == CASE direction = "Left" -> <<RMul(v.canvas_width, multiplier), R(0)>>
               [] direction = "Right" -> <<RMul(RNeg(v.canvas_width), multiplier), R(0)>>
               [] direction = "Up" -> <<R(0), RMul(v.canvas_height, multiplier)>>
               [] direction = "Down" -> <<R(0), RMul(RNeg(v.canvas_height), multiplier)>>
    IN Viewport_pan_by(v, d[1], d[2])

CameraPanSpeeds == {"Fast"}

PanWithSpeed(direction, speed) ==
    LET panned(v) ==
            /\ PanInRange(v.pan_x)
            /\ PanInRange(v.pan_y)
            /\ viewport' = v
    IN /\ panned(Camera_pan_with_speed(viewport, direction, speed))
       /\ vlast' = "pan_by"
       /\ DocIdle

ViewNext ==
    \/ \E sz \in CanvasSizes: SetCanvasSize(sz[1], sz[2])
    \/ \E sz \in DocumentSizes: SetDocumentSize(sz[1], sz[2])
    \/ \E mode \in ViewModes: SetViewMode(mode)
    \/ \E scale \in ScaleArgs: SetScale(scale)
    \/ \E factor \in ZoomFactors: ZoomIn(factor)
    \/ \E factor \in ZoomFactors: ZoomOut(factor)
    \/ \E p \in PanArgs: SetPan(p[1], p[2])
    \/ \E p \in PanDeltas: PanBy(p[1], p[2])
    \/ \E direction \in PanDirections, speed \in CameraPanSpeeds:
          PanWithSpeed(direction, speed)
    \/ ResetPan
    \/ ResetViewport

(***************************************************************************)
(* Camera (domain/viewport/camera.rs) and the coordinate conversions.      *)
(***************************************************************************)
Camera_zoom_at_point(v, screen_x, screen_y, zoom_factor) ==
    LET adjusted(zoomed, new_screen) ==
            Viewport_pan_by(zoomed, RSub(screen_x, new_screen[1]),
                                    RSub(screen_y, new_screen[2]))
        back(doc, zoomed) ==
            adjusted(zoomed, Viewport_document_to_screen(zoomed, doc[1], doc[2]))
    IN back(Viewport_screen_to_document(v, screen_x, screen_y),
            Viewport_set_scale(v, RMul(v.scale, zoom_factor)))

\* points handed to the conversions and to zoom_at_point
Points == {<<R(1), R(2)>>, <<R(-1), R(3)>>}

\* the cursor positions zoom_at_point is called with
CursorPoints == {<<R(1), R(2)>>}

\* the inputs of the camera specification
CameraCanvasSizes == {<<R(0), R(0)>>, <<R(4), R(2)>>}

CameraDocumentSizes == {<<R(0), R(0)>>, <<R(2), R(4)>>}

CameraScaleArgs == {R(0), <<1, 2>>, R(2), PosInf}

CameraZoomFactors == {R(0), <<1, 2>>, R(2), PosInf}

PanOnGrid(p) == ~IsFinite(p) \/ p[2] <= MaxPanDen

\* camera zooms stay between 1/MaxZoom and MaxZoom, the floor and the
\* non-finite scales excepted
CameraScaleInRange(s) ==
    \/ ~IsFinite(s)
    \/ s = MinScale
    \/ (RLe(<<1, MaxZoom>>, s) /\ RLe(s, R(MaxZoom)))

PanBounded(p) == ~IsFinite(p) \/ (RLe(R(-MaxPan), p) /\ RLe(p, R(MaxPan)))

\* screen_to_document and document_to_screen applied to p, and each applied
\* to the result of the other
ConvertPoint(p) ==
    /\ probe' =
         LET screen == Viewport_document_to_screen(viewport, p[1], p[2])
             doc == Viewport_screen_to_document(viewport, p[1], p[2])
         IN [op |-> "convert", p |-> p,
             screen |-> screen,
             back |-> Viewport_screen_to_document(viewport, screen[1], screen[2]),
             doc |-> doc,
             forth |-> Viewport_document_to_screen(viewport, doc[1], doc[2])]
    /\ UNCHANGED <<viewVars, docVars, auxVars>>

ZoomAtPoint(p, factor) ==
    LET zoomed(v) ==
            /\ CameraScaleInRange(v.scale)
            /\ PanBounded(v.pan_x)
            /\ PanBounded(v.pan_y)
            /\ viewport' = v
    IN /\ PanOnGrid(viewport.pan_x)
       /\ PanOnGrid(viewport.pan_y)
       /\ zoomed(Camera_zoom_at_point(viewport, p[1], p[2], factor))
       /\ vlast' = "zoom_at_point"
       /\ probe' = [op |-> "zoom_at_point", p |-> p, factor |-> factor,
                    doc |-> Viewport_screen_to_document(viewport, p[1], p[2]),
                    pre |-> viewport]
       /\ UNCHANGED <<docVars, auxVars>>

CameraNext ==
    \/ \E sz \in CameraCanvasSizes: SetCanvasSize(sz[1], sz[2])
    \/ \E sz \in CameraDocumentSizes: SetDocumentSize(sz[1], sz[2])
    \/ \E mode \in ViewModes: SetViewMode(mode)
    \/ \E scale \in CameraScaleArgs: SetScale(scale)
    \/ \E p \in PanArgs: SetPan(p[1], p[2])
    \/ \E p \in CursorPoints, factor \in CameraZoomFactors: ZoomAtPoint(p, factor)
    \/ \E p \in Points: ConvertPoint(p)

(***************************************************************************)
(* Canvas selection to image region                                        *)
(* (application/commands/crop_document.rs, ContentFit::Contain).           *)
(***************************************************************************)
CropDocumentCommand_canvas_to_image_coords(cx, cy, canvas_size, image_size, scale, offset) ==
    LET aspect == RDiv(image_size[1], image_size[2])
        canvas_aspect == RDiv(canvas_size[1], canvas_size[2])
        display == IF RLt(canvas_aspect, aspect)
                   THEN <<canvas_size[1], RDiv(canvas_size[1], aspect)>>
                   ELSE <<RMul(canvas_size[2], aspect), canvas_size[2]>>
        scaled_w == RMul(display[1], scale)
        scaled_h == RMul(display[2], scale)
        center_x == RDiv(RSub(canvas_size[1], scaled_w), R(2))
        center_y == RDiv(RSub(canvas_size[2], scaled_h), R(2))
        img_x == RDiv(RSub(RSub(cx, center_x), offset[1]), scale)
        img_y == RDiv(RSub(RSub(cy, center_y), offset[2]), scale)
    IN <<RMul(RDiv(img_x, display[1]), image_size[1]),
         RMul(RDiv(img_y, display[2]), image_size[2])>>

CropDocumentCommand_canvas_rect_to_image_rect(canvas_rect, canvas_size, image_size, scale, offset) ==
    LET cx == canvas_rect[1]
        cy == canvas_rect[2]
        cw == canvas_rect[3]
        ch == canvas_rect[4]
        clamped(p1, p2) ==
            LET img_x == RMin(RMax(p1[1], R(0)), image_size[1])
                img_y == RMin(RMax(p1[2], R(0)), image_size[2])
                img_w == RMin(RMax(RSub(p2[1], p1[1]), R(1)), RSub(image_size[1], img_x))
                img_h == RMin(RMax(RSub(p2[2], p1[2]), R(1)), RSub(image_size[2], img_y))
            IN [some |-> TRUE,
                rect |-> <<AsU32(img_x), AsU32(img_y), AsU32(img_w), AsU32(img_h)>>]
    IN IF RLe(cw, R(1)) \/ RLe(ch, R(1))
       THEN [some |-> FALSE]
       ELSE clamped(
                CropDocumentCommand_canvas_to_image_coords(
                    cx, cy, canvas_size, image_size, scale, offset),
                CropDocumentCommand_canvas_to_image_coords(
                    RAdd(cx, cw), RAdd(cy, ch), canvas_size, image_size, scale, offset))

CropDocumentCommand_from_canvas_selection(crop_region, canvas_size, image_size, scale, pan_offset) ==
    LET made(image_rect) ==
            IF image_rect.some
            THEN [ok |-> TRUE,
                  x |-> image_rect.rect[1], y |-> image_rect.rect[2],
                  width |-> image_rect.rect[3], height |-> image_rect.rect[4]]
            ELSE [ok |-> FALSE]
    IN made(CropDocumentCommand_canvas_rect_to_image_rect(
                crop_region, canvas_size, image_size, scale, pan_offset))

(***************************************************************************)
(* State of the selection mapping.                                         *)
(*   mapping   the last call of from_canvas_selection: its arguments and   *)
(*             what it returned                                            *)
(***************************************************************************)
NoMapping == [op |-> "none"]

\* canvas rectangles (x, y, width, height) of the selection overlay
CropRegions ==
    {<<R(0), R(0), R(4), R(4)>>,
     <<R(1), R(1), R(3), R(3)>>,
     <<R(1), R(1), <<3, 2>>, R(2)>>,
     <<R(2), R(0), R(1), R(4)>>,
     <<R(3), R(3), R(4), R(4)>>,
     <<R(-2), R(-2), R(3), R(3)>>}

SelectionCanvasSizes == {<<R(4), R(4)>>, <<R(8), R(4)>>}

SelectionImageSizes == {<<R(2), R(2)>>, <<R(4), R(2)>>, <<R(8), R(8)>>}

SelectionScales == {<<1, 2>>, R(1), R(2)}

SelectionPanOffsets == {<<R(0), R(0)>>, <<R(1), R(0)>>, <<R(-8), R(8)>>}

MappingInit == mapping = NoMapping

FromCanvasSelection(crop_region, canvas_size, image_size, scale, pan_offset) ==
    /\ mapping' = [op |-> "from_canvas_selection",
                   crop_region |-> crop_region,
                   canvas_size |-> canvas_size,
                   image_size |-> image_size,
                   scale |-> scale,
                   pan_offset |-> pan_offset,
                   result |-> CropDocumentCommand_from_canvas_selection(
                                  crop_region, canvas_size, image_size, scale, pan_offset)]
    /\ UNCHANGED <<docVars, viewVars, probe, collectionVars, cacheVars, managerVars,
                   selectionVars, uiVars>>

MappingNext ==
    \E crop_region \in CropRegions, canvas_size \in SelectionCanvasSizes,
       image_size \in SelectionImageSizes, scale \in SelectionScales,
       pan_offset \in SelectionPanOffsets:
        FromCanvasSelection(crop_region, canvas_size, image_size, scale, pan_offset)

(***************************************************************************)
(* DocumentCollection (domain/document/collection.rs).                     *)
(* paths is the Vec of paths, current_index is NoIndex for None and the    *)
(* 0-based index otherwise, current_document is NoDocument for None and    *)
(* otherwise names the path the held document was loaded from.  Each      *)
(* method yields the collection after the call and the returned value.    *)
(***************************************************************************)
NoIndex == -1

NoDocument == "None"

Collection_new ==
    [paths |-> <<>>, current_index |-> NoIndex, current_document |-> NoDocument]

Collection_from_paths(paths) ==
    [paths |-> paths,
     current_index |-> IF paths = <<>> THEN NoIndex ELSE 0,
     current_document |-> NoDocument]

Collection_len(c) == Len(c.paths)

\* current_path(): NoDocument stands for None
Collection_current_path(c) ==
    IF c.current_index # NoIndex /\ c.current_index < Len(c.paths)
    THEN c.paths[c.current_index + 1]
    ELSE NoDocument

Collection_set_current_document(c, doc) ==
    [c EXCEPT !.current_document = doc]

Collection_clear_current_document(c) ==
    [c EXCEPT !.current_document = NoDocument]

\* variant: next wraps from the last index to the first
Collection_next_wrap(c) ==
    IF c.current_index # NoIndex
    THEN LET index == (c.current_index + 1) % Len(c.paths)
         IN [c |-> [c EXCEPT !.current_index = index,
                             !.current_document = NoDocument],
             ret |-> index]
    ELSE [c |-> c, ret |-> NoIndex]

Collection_next(c) ==
    IF c.current_index # NoIndex /\ c.current_index + 1 < Len(c.paths)
    THEN [c |-> [c EXCEPT !.current_index = c.current_index + 1,
                          !.current_document = NoDocument],
          ret |-> c.current_index + 1]
    ELSE [c |-> c, ret |-> NoIndex]

\* variant: the held document survives the step back
Collection_previous_keep(c) ==
    IF c.current_index # NoIndex /\ c.current_index > 0
    THEN [c |-> [c EXCEPT !.current_index = c.current_index - 1],
          ret |-> c.current_index - 1]
    ELSE [c |-> c, ret |-> NoIndex]

Collection_previous(c) ==
    IF c.current_index # NoIndex /\ c.current_index > 0
    THEN [c |-> [c EXCEPT !.current_index = c.current_index - 1,
                          !.current_document = NoDocument],
          ret |-> c.current_index - 1]
    ELSE [c |-> c, ret |-> NoIndex]

\* variant: the held document survives the jump
Collection_goto_keep(c, index) ==
    IF index < Len(c.paths)
    THEN [c |-> [c EXCEPT !.current_index = index], ret |-> TRUE]
    ELSE [c |-> c, ret |-> FALSE]

Collection_goto(c, index) ==
    IF index < Len(c.paths)
    THEN [c |-> [c EXCEPT !.current_index = index,
                          !.current_document = NoDocument],
          ret |-> TRUE]
    ELSE [c |-> c, ret |-> FALSE]

\* variant: the first path added does not become the current one
Collection_add_path_no_index(c, path) ==
    [c EXCEPT !.paths = Append(@, path)]

Collection_add_path(c, path) ==
    [c EXCEPT !.paths = Append(@, path),
              !.current_index = IF @ = NoIndex THEN 0 ELSE @]

\* Vec::remove(index): the later items shift down by one
VecRemove(v, index) ==
    [i \in 1..(Len(v) - 1) |-> IF i <= index THEN v[i] ELSE v[i + 1]]

\* variant: a removal before the current item leaves the index alone
Collection_remove_at_no_shift(c, index) ==
    IF index < Len(c.paths)
    THEN LET paths == VecRemove(c.paths, index)
             current == c.current_index
         IN [c |-> IF current # NoIndex /\ current = index
                   THEN [paths |-> paths,
                         current_document |-> NoDocument,
                         current_index |->
                             IF paths = <<>> THEN NoIndex
                             ELSE IF current >= Len(paths) THEN Len(paths) - 1
                             ELSE current]
                   ELSE [c EXCEPT !.paths = paths],
             ret |-> c.paths[index + 1]]
    ELSE [c |-> c, ret |-> NoDocument]

\* remove_at(index): ret is the removed path, NoDocument for None
Collection_remove_at(c, index) ==
    IF index < Len(c.paths)
    THEN LET paths == VecRemove(c.paths, index)
             current == c.current_index
         IN [c |-> IF current # NoIndex /\ current = index
                   THEN [paths |-> paths,
                         current_document |-> NoDocument,
                         current_index |->
                             IF paths = <<>> THEN NoIndex
                             ELSE IF current >= Len(paths) THEN Len(paths) - 1
                             ELSE current]
                   ELSE IF current # NoIndex /\ current > index
                   THEN [c EXCEPT !.paths = paths, !.current_index = current - 1]
                   ELSE [c EXCEPT !.paths = paths],
             ret |-> c.paths[index + 1]]
    ELSE [c |-> c, ret |-> NoDocument]

Collection_clear(c) ==
    [paths |-> <<>>, current_index |-> NoIndex, current_document |-> NoDocument]

(***************************************************************************)
(* State of the collection specification.                                  *)
(*   collection   the DocumentCollection                                   *)
(*   clast        history: the last method called, its argument, what it   *)
(*                returned and the collection before the call              *)
(*   disciplined  history: every set_current_document so far stored the    *)
(*                document loaded from current_path() at that moment       *)
(***************************************************************************)
PathNames == {"a", "b", "c"}

\* the lists a collection is built from
PathLists == {<<>>, <<"a">>, <<"a", "b", "c">>}

\* indices handed to goto and remove_at: every valid one and one past the end
Indices == 0..MaxPaths

CollectionInit ==
    /\ collection = Collection_new
    /\ clast = [op |-> "new", arg |-> NoIndex, ret |-> NoIndex, pre |-> Collection_new]
    /\ disciplined = TRUE

CollectionIdle ==
    UNCHANGED <<docVars, viewVars, probe, mapping, cacheVars, managerVars, selectionVars,
                uiVars>>

Called(op, arg, ret) == [op |-> op, arg |-> arg, ret |-> ret, pre |-> collection]

FromPaths(paths) ==
    /\ collection' = Collection_from_paths(paths)
    /\ clast' = Called("from_paths", NoIndex, NoIndex)
    /\ UNCHANGED disciplined
    /\ CollectionIdle

CollectionNextDocument ==
    /\ collection' = Collection_next(collection).c
    /\ clast' = Called("next", NoIndex, Collection_next(collection).ret)
    /\ UNCHANGED disciplined
    /\ CollectionIdle

CollectionPreviousDocument ==
    /\ collection' = Collection_previous(collection).c
    /\ clast' = Called("previous", NoIndex, Collection_previous(collection).ret)
    /\ UNCHANGED disciplined
    /\ CollectionIdle

CollectionGoto(index) ==
    /\ collection' = Collection_goto(collection, index).c
    /\ clast' = Called("goto", index, Collection_goto(collection, index).ret)
    /\ UNCHANGED disciplined
    /\ CollectionIdle

AddPath(path) ==
    /\ Collection_len(collection) < MaxPaths
    /\ collection' = Collection_add_path(collection, path)
    /\ clast' = Called("add_path", NoIndex, NoIndex)
    /\ UNCHANGED disciplined
    /\ CollectionIdle

RemoveAt(index) ==
    /\ collection' = Collection_remove_at(collection, index).c
    /\ clast' = Called("remove_at", index, Collection_remove_at(collection, index).ret)
    /\ UNCHANGED disciplined
    /\ CollectionIdle

ClearCollection ==
    /\ collection' = Collection_clear(collection)
    /\ clast' = Called("clear", NoIndex, NoIndex)
    /\ UNCHANGED disciplined
    /\ CollectionIdle

\* a caller stores the document it loaded from the given path
SetCurrentDocument(path) ==
    /\ collection' = Collection_set_current_document(collection, path)
    /\ clast' = Called("set_current_document", NoIndex, NoIndex)
    /\ disciplined' = (disciplined /\ path = Collection_current_path(collection))
    /\ CollectionIdle

ClearCurrentDocument ==
    /\ collection' = Collection_clear_current_document(collection)
    /\ clast' = Called("clear_current_document", NoIndex, NoIndex)
    /\ UNCHANGED disciplined
    /\ CollectionIdle

CollectionNext ==
    \/ \E paths \in PathLists: FromPaths(paths)
    \/ CollectionNextDocument
    \/ CollectionPreviousDocument
    \/ \E index \in Indices: CollectionGoto(index)
    \/ \E path \in PathNames: AddPath(path)
    \/ \E index \in Indices: RemoveAt(index)
    \/ ClearCollection
    \/ \E path \in PathNames: SetCurrentDocument(path)
    \/ ClearCurrentDocument

(***************************************************************************)
(* ThumbnailCache (infrastructure/cache/thumbnail_cache.rs).               *)
(* The file system is modelled by the modification time of each source     *)
(* file (NoFile when it does not exist) and by the content of the cache    *)
(* directory, a function from file name to file content.  A modification   *)
(* time is <<seconds, fraction>>, as SystemTime keeps it.                  *)
(***************************************************************************)
NoFile == <<0, 0>>

NoEntry == [some |-> FALSE]

THUMBNAIL_EXT == "png"

\* sha256 of path bytes, mtime seconds and page, taken as injective
Sha256(path, secs, page) == <<path, secs, page>>

\* Duration::as_secs: the whole seconds of the modification time
as_secs(mtime) == mtime[1]

\* cache_key: None when the metadata of the file cannot be read
ThumbnailCache_cache_key(fs, file_path, page) ==
    IF fs[file_path] = NoFile
    THEN [some |-> FALSE]
    ELSE [some |-> TRUE, key |-> Sha256(file_path, as_secs(fs[file_path]), page)]

ThumbnailCache_thumbnail_path(fs, file_path, page) ==
    LET named(key) ==
            IF key.some
            THEN [some |-> TRUE, path |-> <<key.key, THUMBNAIL_EXT>>]
            ELSE [some |-> FALSE]
    IN named(ThumbnailCache_cache_key(fs, file_path, page))

\* PNG encoding of an image and the decoding of such a file
PngEncode(image) == [format |-> "Png", pixels |-> image]

PngDecode(content) == content.pixels

\* operations/render.rs create_image_handle_from_image: the RGBA8 pixels
create_image_handle_from_image(image) == [rgba8 |-> image]

\* load: the returned handle, NoEntry for None
ThumbnailCache_load(fs, dir, file_path, page) ==
    LET looked(cache_path) ==
            IF ~cache_path.some THEN NoEntry
            ELSE IF cache_path.path \notin DOMAIN dir THEN NoEntry
            ELSE [some |-> TRUE,
                  handle |-> create_image_handle_from_image(
                                 PngDecode(dir[cache_path.path]))]
    IN looked(ThumbnailCache_thumbnail_path(fs, file_path, page))

\* save: the cache directory after the call and whether Some(()) came back
ThumbnailCache_save(fs, dir, file_path, page, image) ==
    LET written(key) ==
            IF ~key.some
            THEN [dir |-> dir, ok |-> FALSE]
            ELSE [dir |-> [name \in DOMAIN dir \cup {<<key.key, THUMBNAIL_EXT>>} |->
                             IF name = <<key.key, THUMBNAIL_EXT>>
                             THEN PngEncode(image) ELSE dir[name]],
                  ok |-> TRUE]
    IN written(ThumbnailCache_cache_key(fs, file_path, page))

\* clear_cache: the cache directory is removed with all it holds
ThumbnailCache_clear_cache(dir) == <<>>

(***************************************************************************)
(* State of the cache specification.                                       *)
(*   files   modification time of each source file                         *)
(*   cache   content of the cache directory                                *)
(*   saved   history: the last successful save (path, page, image) and     *)
(*           the modification time the file had then; forgotten when the   *)
(*           cache is cleared                                              *)
(*   tlast   history: the last call and what it returned                   *)
(***************************************************************************)
CachePaths == {"a"}

CachePages == {0, 1}

Thumbnails == {"first", "second"}

\* modification times: whole seconds and seconds and a half
Mtimes == (1..MaxMtime) \X {0, 5}

NoSave == [some |-> FALSE]

CacheInit ==
    /\ files = [p \in CachePaths |-> NoFile]
    /\ cache = <<>>
    /\ saved = NoSave
    /\ tlast = [op |-> "none"]

CacheIdle ==
    UNCHANGED <<docVars, viewVars, probe, mapping, collectionVars, managerVars,
                selectionVars, uiVars>>

\* the source file is written (created or modified): its modification time
\* becomes another one
WriteFile(path, mtime) ==
    /\ files[path] # mtime
    /\ files' = [files EXCEPT ![path] = mtime]
    /\ tlast' = [op |-> "write_file"]
    /\ UNCHANGED <<cache, saved>>
    /\ CacheIdle

RemoveFile(path) ==
    /\ files[path] # NoFile
    /\ files' = [files EXCEPT ![path] = NoFile]
    /\ tlast' = [op |-> "remove_file"]
    /\ UNCHANGED <<cache, saved>>
    /\ CacheIdle

SaveThumbnail(path, page, image) ==
    LET stored(r) ==
            /\ cache' = r.dir
            /\ saved' = IF r.ok
                         THEN [some |-> TRUE, path |-> path, page |-> page,
                               image |-> image, mtime |-> files[path]]
                         ELSE saved
            /\ tlast' = [op |-> "save", path |-> path, page |-> page, ok |-> r.ok]
    IN /\ stored(ThumbnailCache_save(files, cache, path, page, image))
       /\ UNCHANGED files
       /\ CacheIdle

LoadThumbnail(path, page) ==
    /\ tlast' = [op |-> "load", path |-> path, page |-> page,
                 ret |-> ThumbnailCache_load(files, cache, path, page)]
    /\ UNCHANGED <<files, cache, saved>>
    /\ CacheIdle

ClearCache ==
    /\ cache' = ThumbnailCache_clear_cache(cache)
    /\ saved' = NoSave
    /\ tlast' = [op |-> "clear_cache"]
    /\ UNCHANGED files
    /\ CacheIdle

CacheNext ==
    \/ \E path \in CachePaths, mtime \in Mtimes: WriteFile(path, mtime)
    \/ \E path \in CachePaths: RemoveFile(path)
    \/ \E path \in CachePaths, page \in CachePages, image \in Thumbnails:
          SaveThumbnail(path, page, image)
    \/ \E path \in CachePaths, page \in CachePages: LoadThumbnail(path, page)
    \/ ClearCache

(***************************************************************************)
(* Scale helpers (domain/document/operations/render.rs).                   *)
(***************************************************************************)
\* calculate_fill_scale: the larger of the two ratios
calculate_fill_scale(width, height, target_width, target_height) ==
    IF width = 0 \/ height = 0
    THEN R(1)
    ELSE LET width_scale == RDiv(R(target_width), R(width))
             height_scale == RDiv(R(target_height), R(height))
         IN RMax(width_scale, height_scale)

calculate_fit_scale(width, height, target_width, target_height) ==
    IF width = 0 \/ height = 0
    THEN R(1)
    ELSE LET width_scale == RDiv(R(target_width), R(width))
             height_scale == RDiv(R(target_height), R(height))
         IN RMin(width_scale, height_scale)

\* the document sizes and target sizes the helpers are called with
FitWidths == {0, 100, 200, 1600}

FitHeights == {0, 100, 200, 1200}

FitTargetWidths == {0, 100, 300, 800}

FitTargetHeights == {0, 100, 600}

\* calculate_fit_scale and, on a viewport given the same sizes,
\* Viewport::calculate_fit_scale
FitScale(width, height, target_width, target_height) ==
    /\ probe' = [op |-> "calculate_fit_scale",
                 width |-> width, height |-> height,
                 target_width |-> target_width, target_height |-> target_height,
                 ret |-> calculate_fit_scale(width, height,
                                             target_width, target_height),
                 viewport_ret |->
                     Viewport_calculate_fit_scale(
                         Viewport_set_document_size(
                             Viewport_set_canvas_size(
                                 Viewport_new, R(target_width), R(target_height)),
                             R(width), R(height)))]
    /\ UNCHANGED <<viewVars, docVars, auxVars>>

FitNext ==
    \E width \in FitWidths, height \in FitHeights,
       target_width \in FitTargetWidths, target_height \in FitTargetHeights:
        FitScale(width, height, target_width, target_height)

(***************************************************************************)
(* DocumentManager (application/document_manager.rs).                      *)
(* A path is <<folder>> for a directory and <<folder, stem, extension>>    *)
(* for a file in it.  The disk gives each file its condition: "absent",    *)
(* "corrupt" (present, not decodable) or "ok".  A loaded document is       *)
(* represented by its kind and the file it was decoded from.               *)
(***************************************************************************)
\* every file of the model, in the order Vec<PathBuf>::sort gives
AllFiles ==
    << <<"d", "a", "png">>, <<"d", "b", "png">>, <<"d", "n", "txt">>,
       <<"e", "c", "png">> >>

Folders == {<<"d">>, <<"e">>}

Path_is_dir(path) == Len(path) = 1

Path_is_file(fs, path) == Len(path) = 3 /\ fs[path] # "absent"

Path_parent(path) == <<path[1]>>

\* DocumentKind::from_path: the kind the extension stands for
DocumentKind_from_path(path) ==
    IF Len(path) = 3 /\ path[3] = "png"
    THEN [some |-> TRUE, kind |-> "Raster"]
    ELSE [some |-> FALSE]

\* file_ops::collect_supported_files: the regular files of dir with a
\* recognised extension, sorted
collect_supported_files(fs, dir) ==
    SelectSeq(AllFiles,
              LAMBDA p: /\ Path_parent(p) = dir
                        /\ Path_is_file(fs, p)
                        /\ DocumentKind_from_path(p).some)

\* DocumentLoaderFactory::load
DocumentLoaderFactory_load(fs, path) ==
    LET decoded(kind) ==
            IF ~kind.some THEN [ok |-> FALSE]
            ELSE IF fs[path] # "ok" THEN [ok |-> FALSE]
            ELSE [ok |-> TRUE, document |-> [kind |-> kind.kind, source |-> path]]
    IN decoded(DocumentKind_from_path(path))

NoPath == <<>>

NoMeta == [some |-> FALSE]

DocumentManager_new ==
    [current_document |-> NoDoc,
     current_path |-> NoPath,
     current_metadata |-> NoMeta,
     folder_entries |-> <<>>,
     current_index |-> NoIndex]

DocumentManager_scan_folder(m, fs, folder) ==
    [m EXCEPT !.folder_entries = collect_supported_files(fs, folder)]

DocumentManager_extract_metadata(path, doc) ==
    [some |-> TRUE, file_name |-> <<path[2], path[3]>>, file_path |-> path,
     color_type |-> doc.kind]

\* iter().position: the index of the first entry equal to path, NoIndex for None
Position(entries, path) ==
    IF \E i \in 1..Len(entries): entries[i] = path
    THEN (CHOOSE i \in 1..Len(entries):
              /\ entries[i] = path
              /\ \A j \in 1..(i - 1): entries[j] # path) - 1
    ELSE NoIndex

\* open_document: the manager after the call and whether Ok(()) came back
DocumentManager_open_document(m, fs, path) ==
    LET opened(m1, file_path) ==
            LET loaded(r) ==
                    IF ~r.ok THEN [manager |-> m1, ok |-> FALSE]
                    ELSE LET finish(m2) ==
                                 [manager |->
                                      [m2 EXCEPT
                                          !.current_index =
                                              Position(m2.folder_entries, file_path),
                                          !.current_document = r.document,
                                          !.current_path = file_path,
                                          !.current_metadata =
                                              DocumentManager_extract_metadata(
                                                  file_path, r.document)],
                                  ok |-> TRUE]
                         IN finish(IF ~Path_is_dir(path)
                                   THEN DocumentManager_scan_folder(
                                            m1, fs, Path_parent(file_path))
                                   ELSE m1)
            IN loaded(DocumentLoaderFactory_load(fs, file_path))
        in_dir(m1) ==
            IF m1.folder_entries = <<>> THEN [manager |-> m1, ok |-> FALSE]
            ELSE opened(m1, Head(m1.folder_entries))
    IN IF Path_is_dir(path)
       THEN in_dir(DocumentManager_scan_folder(m, fs, path))
       ELSE opened(m, path)

\* Vec::get: the entry at a 0-based index, if there is one
VecGet(v, index) ==
    IF index >= 0 /\ index < Len(v)
    THEN [some |-> TRUE, value |-> v[index + 1]]
    ELSE [some |-> FALSE]

\* the tail of next_document and previous_document: open the entry at
\* new_index and return its path, None when there is none or the open fails
DocumentManager_navigate(m, fs, new_index) ==
    LET target(entry) ==
            IF ~entry.some THEN [manager |-> m, ret |-> NoPath]
            ELSE LET done(r) ==
                         [manager |-> r.manager,
                          ret |-> IF r.ok THEN entry.value ELSE NoPath]
                 IN done(DocumentManager_open_document(m, fs, entry.value))
    IN target(VecGet(m.folder_entries, new_index))

\* variant: no wrap, the last entry is opened again at the end of the list
DocumentManager_next_document_stop(m, fs) ==
    IF m.folder_entries = <<>> THEN [manager |-> m, ret |-> NoPath]
    ELSE DocumentManager_navigate(m, fs,
             IF m.current_index # NoIndex
             THEN Min(m.current_index + 1, Len(m.folder_entries) - 1)
             ELSE 0)

DocumentManager_next_document(m, fs) ==
    IF m.folder_entries = <<>> THEN [manager |-> m, ret |-> NoPath]
    ELSE DocumentManager_navigate(m, fs,
             IF m.current_index # NoIndex
             THEN (IF m.current_index + 1 < Len(m.folder_entries)
                   THEN m.current_index + 1 ELSE 0)
             ELSE 0)

DocumentManager_previous_document(m, fs) ==
    IF m.folder_entries = <<>> THEN [manager |-> m, ret |-> NoPath]
    ELSE DocumentManager_navigate(m, fs,
             IF m.current_index # NoIndex
             THEN (IF m.current_index > 0
                   THEN m.current_index - 1 ELSE Len(m.folder_entries) - 1)
             ELSE Max(Len(m.folder_entries) - 1, 0))

DocumentManager_has_next(m) ==
    IF m.current_index # NoIndex
    THEN m.current_index + 1 < Len(m.folder_entries) ELSE FALSE

DocumentManager_has_previous(m) ==
    IF m.current_index # NoIndex THEN m.current_index > 0 ELSE FALSE

(***************************************************************************)
(* NavigateCommand (application/commands/navigate.rs).                     *)
(***************************************************************************)
NavigationDirections == {"Next", "Previous"}

NavigateCommand_execute(m, fs, direction) ==
    IF direction = "Next"
    THEN DocumentManager_next_document(m, fs)
    ELSE DocumentManager_previous_document(m, fs)

NavigateCommand_can_execute(m, direction) ==
    IF direction = "Next"
    THEN DocumentManager_has_next(m)
    ELSE DocumentManager_has_previous(m)

(***************************************************************************)
(* State of the manager specification.                                     *)
(*   disk     condition of each file                                       *)
(*   manager  the DocumentManager                                          *)
(*   mlast    history: the last call, its argument, what it returned and   *)
(*            the manager before it                                        *)
(***************************************************************************)
FileConditions == {"absent", "corrupt", "ok"}

\* the files whose condition changes; the text file is always there
ChangingFiles == {AllFiles[i] : i \in {1, 2, 4}}

OpenPaths == Folders \cup {AllFiles[i] : i \in 1..Len(AllFiles)}

ManagerInit ==
    /\ disk = [f \in {AllFiles[i] : i \in 1..Len(AllFiles)} |-> "ok"]
    /\ manager = DocumentManager_new
    /\ mlast = [op |-> "new"]

ManagerIdle ==
    UNCHANGED <<docVars, viewVars, probe, mapping, collectionVars, cacheVars,
                selectionVars, uiVars>>

\* a file is written, damaged or removed by another program
SetFile(f, condition) ==
    /\ disk[f] # condition
    /\ disk' = [disk EXCEPT ![f] = condition]
    /\ mlast' = [op |-> "set_file"]
    /\ UNCHANGED manager
    /\ ManagerIdle

OpenPath(path) ==
    LET done(r) ==
            /\ manager' = r.manager
            /\ mlast' = [op |-> "open_document", path |-> path, ok |-> r.ok,
                         pre |-> manager]
    IN /\ done(DocumentManager_open_document(manager, disk, path))
       /\ UNCHANGED disk
       /\ ManagerIdle

NextDocument ==
    LET done(r) ==
            /\ manager' = r.manager
            /\ mlast' = [op |-> "next_document", ret |-> r.ret, pre |-> manager]
    IN /\ done(DocumentManager_next_document(manager, disk))
       /\ UNCHANGED disk
       /\ ManagerIdle

PrevDocument ==
    LET done(r) ==
            /\ manager' = r.manager
            /\ mlast' = [op |-> "previous_document", ret |-> r.ret, pre |-> manager]
    IN /\ done(DocumentManager_previous_document(manager, disk))
       /\ UNCHANGED disk
       /\ ManagerIdle

\* a caller asks the command whether it can run, then runs it
Navigate(direction) ==
    LET done(r) ==
            /\ manager' = r.manager
            /\ mlast' = [op |-> "navigate", direction |-> direction,
                         can_execute |-> NavigateCommand_can_execute(manager, direction),
                         ret |-> r.ret, pre |-> manager]
    IN /\ done(NavigateCommand_execute(manager, disk, direction))
       /\ UNCHANGED disk
       /\ ManagerIdle

ManagerNext ==
    \/ \E f \in ChangingFiles, condition \in FileConditions: SetFile(f, condition)
    \/ \E path \in OpenPaths: OpenPath(path)
    \/ NextDocument
    \/ PrevDocument
    \/ \E direction \in NavigationDirections: Navigate(direction)

(***************************************************************************)
(* CropSelection.  Two implementations exist: ui/widgets/crop_types.rs     *)
(* (the one the update loop uses) and ui/components/crop/selection.rs.     *)
(* They share the fields region, is_dragging, drag_handle, drag_start and  *)
(* drag_start_region; start_new_selection, start_handle_drag and end_drag  *)
(* read the same in both; update_drag and resize_region differ.  A region  *)
(* is <<x, y, width, height>>, NoRegion for None; a point is <<x, y>>,     *)
(* NoPoint for None.  Coordinates are f32 in the code; the operations use  *)
(* only min, max, + and -, which are exact on the integer coordinates the  *)
(* gestures below are drawn from.                                          *)
(***************************************************************************)
NoRegion == <<>>

NoPoint == <<>>

DragHandles ==
    {"None", "TopLeft", "TopRight", "BottomLeft", "BottomRight",
     "Top", "Bottom", "Left", "Right", "Move"}

CropSelection_default ==
    [region |-> NoRegion, is_dragging |-> FALSE, drag_handle |-> "None",
     drag_start |-> NoPoint, drag_start_region |-> NoRegion]

CropSelection_start_new_selection(s, x, y) ==
    [region |-> <<x, y, 0, 0>>, is_dragging |-> TRUE, drag_handle |-> "None",
     drag_start |-> <<x, y>>, drag_start_region |-> NoRegion]

CropSelection_start_handle_drag(s, handle, x, y) ==
    [s EXCEPT !.is_dragging = TRUE,
              !.drag_handle = handle,
              !.drag_start = <<x, y>>,
              !.drag_start_region = s.region]

\* crop_types.rs: the least width and height a resize leaves
WidgetMinSize == 10

\* crop_types.rs resize_region: cursor_x, cursor_y is the cursor
CropSelection_resize_region(handle, rx, ry, rw, rh, cursor_x, cursor_y, img_width, img_height) ==
    LET right == rx + rw
        bottom == ry + rh
        x == Min(Max(cursor_x, 0), img_width)
        y == Min(Max(cursor_y, 0), img_height)
        west == Min(x, right - WidgetMinSize)
        north == Min(y, bottom - WidgetMinSize)
        east == Max(x, rx + WidgetMinSize)
        south == Max(y, ry + WidgetMinSize)
    IN CASE handle = "TopLeft" -> <<west, north, right - west, bottom - north>>
         [] handle = "TopRight" -> <<rx, north, east - rx, bottom - north>>
         [] handle = "BottomLeft" -> <<west, ry, right - west, south - ry>>
         [] handle = "BottomRight" -> <<rx, ry, east - rx, south - ry>>
         [] handle = "Top" -> <<rx, north, rw, bottom - north>>
         [] handle = "Bottom" -> <<rx, ry, rw, south - ry>>
         [] handle = "Left" -> <<west, ry, right - west, rh>>
         [] handle = "Right" -> <<rx, ry, east - rx, rh>>
         [] OTHER -> <<rx, ry, rw, rh>>

\* crop_types.rs update_drag
CropSelection_update_drag(s, x, y, img_width, img_height) ==
    IF ~s.is_dragging THEN s
    ELSE IF s.drag_handle = "None"
    THEN IF s.drag_start # NoPoint
         THEN LET min_x == Max(Min(s.drag_start[1], x), 0)
                  min_y == Max(Min(s.drag_start[2], y), 0)
                  max_x == Min(Max(s.drag_start[1], x), img_width)
                  max_y == Min(Max(s.drag_start[2], y), img_height)
              IN [s EXCEPT !.region = <<min_x, min_y, max_x - min_x, max_y - min_y>>]
         ELSE s
    ELSE IF s.drag_handle = "Move"
    THEN IF s.drag_start # NoPoint /\ s.drag_start_region # NoRegion
         THEN LET r == s.drag_start_region
                  dx == x - s.drag_start[1]
                  dy == y - s.drag_start[2]
                  new_x == Min(Max(r[1] + dx, 0), img_width - r[3])
                  new_y == Min(Max(r[2] + dy, 0), img_height - r[4])
              IN [s EXCEPT !.region = <<new_x, new_y, r[3], r[4]>>]
         ELSE s
    ELSE IF s.drag_start_region # NoRegion
         THEN LET r == s.drag_start_region
              IN [s EXCEPT !.region =
                     CropSelection_resize_region(s.drag_handle, r[1], r[2], r[3], r[4],
                                                 x, y, img_width, img_height)]
         ELSE s

CropSelection_end_drag(s) ==
    [s EXCEPT !.is_dragging = FALSE,
              !.drag_start = NoPoint,
              !.drag_start_region = NoRegion]

\* to_crop_region: [some |-> FALSE] for None
CropSelection_to_crop_region(s) ==
    IF s.region # NoRegion /\ s.region[3] > 1 /\ s.region[4] > 1
    THEN [some |-> TRUE,
          x |-> AsU32(R(s.region[1])), y |-> AsU32(R(s.region[2])),
          width |-> AsU32(R(s.region[3])), height |-> AsU32(R(s.region[4]))]
    ELSE [some |-> FALSE]

CropSelection_reset(s) == CropSelection_default

\* selection.rs: the least width and height a resize leaves
ComponentMinSize == 1

\* selection.rs Direction flags of a resize handle
Direction(handle) ==
    [north |-> handle \in {"TopLeft", "Top", "TopRight"},
     south |-> handle \in {"BottomLeft", "Bottom", "BottomRight"},
     west |-> handle \in {"TopLeft", "Left", "BottomLeft"},
     east |-> handle \in {"TopRight", "Right", "BottomRight"}]

\* selection.rs resize_region: dx, dy is the cursor's move since the drag began
Selection_resize_region(rx, ry, rw, rh, dx, dy, dir, max_x, max_y) ==
    LET proposed_x == Max(rx + dx, 0)
        proposed_w == (rx + rw) - proposed_x
        proposed_right == Min(rx + rw + dx, max_x)
        proposed_y == Max(ry + dy, 0)
        proposed_h == (ry + rh) - proposed_y
        proposed_bottom == Min(ry + rh + dy, max_y)
        horizontal ==
            IF dir.west
            THEN IF proposed_w >= ComponentMinSize
                 THEN <<proposed_x, proposed_w>>
                 ELSE <<(rx + rw) - ComponentMinSize, ComponentMinSize>>
            ELSE IF dir.east
            THEN <<rx, Max(proposed_right - rx, ComponentMinSize)>>
            ELSE <<rx, rw>>
        vertical ==
            IF dir.north
            THEN IF proposed_h >= ComponentMinSize
                 THEN <<proposed_y, proposed_h>>
                 ELSE <<(ry + rh) - ComponentMinSize, ComponentMinSize>>
            ELSE IF dir.south
            THEN <<ry, Max(proposed_bottom - ry, ComponentMinSize)>>
            ELSE <<ry, rh>>
    IN <<horizontal[1], vertical[1], horizontal[2], vertical[2]>>

\* f32::clamp(min, max) where min <= max; it panics otherwise
Clamp(v, lo, hi) == Min(Max(v, lo), hi)

\* the Move arm of selection.rs update_drag reaches clamp with min > max
Selection_panics(s, max_x, max_y) ==
    /\ s.is_dragging
    /\ s.drag_handle = "Move"
    /\ s.drag_start # NoPoint
    /\ s.drag_start_region # NoRegion
    /\ (max_x - s.drag_start_region[3] < 0 \/ max_y - s.drag_start_region[4] < 0)

\* selection.rs update_drag (canvas_bounds, which it also records, is read
\* by none of these methods)
Selection_update_drag(s, x, y, max_x, max_y) ==
    IF ~s.is_dragging THEN s
    ELSE IF s.drag_handle = "None"
    THEN IF s.drag_start # NoPoint
         THEN LET min_x == Max(Min(s.drag_start[1], x), 0)
                  min_y == Max(Min(s.drag_start[2], y), 0)
                  max_x_clamped == Min(Max(s.drag_start[1], x), max_x)
                  max_y_clamped == Min(Max(s.drag_start[2], y), max_y)
              IN [s EXCEPT !.region =
                     <<min_x, min_y, max_x_clamped - min_x, max_y_clamped - min_y>>]
         ELSE s
    ELSE IF s.drag_start # NoPoint /\ s.drag_start_region # NoRegion
    THEN LET r == s.drag_start_region
             dx == x - s.drag_start[1]
             dy == y - s.drag_start[2]
         IN IF s.drag_handle = "Move"
            THEN [s EXCEPT !.region =
                     <<Clamp(r[1] + dx, 0, max_x - r[3]),
                       Clamp(r[2] + dy, 0, max_y - r[4]), r[3], r[4]>>]
            ELSE [s EXCEPT !.region =
                     Selection_resize_region(r[1], r[2], r[3], r[4], dx, dy,
                                             Direction(s.drag_handle), max_x, max_y)]
    ELSE s

(***************************************************************************)
(* State of the selection specification: the methods of a CropSelection    *)
(* called as the overlay widget calls them during mouse gestures.          *)
(*   crop    impl: which of the two implementations is in use;             *)
(*           selection: the CropSelection                                  *)
(*   slast   history: the last method called                               *)
(***************************************************************************)
\* where a gesture starts: inside the canvas bounds MaxCanvas x MaxCanvas
StartCoordinates == {<<0, 0>>, <<MaxCanvas, MaxCanvas>>}

\* where the cursor is dragged to: inside the bounds, on them, or beyond
CursorCoordinates ==
    {<<-5, -5>>, <<5, 5>>, <<MaxCanvas + 5, MaxCanvas + 5>>}

Implementations == {"widgets", "components"}

SelectionInit ==
    /\ crop = [impl |-> "widgets", selection |-> CropSelection_default]
    /\ slast = [op |-> "new"]

SelectionIdle ==
    UNCHANGED <<docVars, viewVars, probe, mapping, collectionVars, cacheVars,
                managerVars, uiVars>>

\* CropSelection::new() of either implementation
NewSelection(impl) ==
    /\ crop' = [impl |-> impl, selection |-> CropSelection_default]
    /\ slast' = [op |-> "new"]
    /\ SelectionIdle

\* a gesture begins with the mouse button going down, which it does only
\* after the previous gesture ended with its release
StartNewSelection(x, y) ==
    /\ ~crop.selection.is_dragging
    /\ crop' = [crop EXCEPT !.selection = CropSelection_start_new_selection(@, x, y)]
    /\ slast' = [op |-> "start_new_selection"]
    /\ SelectionIdle

StartHandleDrag(handle, x, y) ==
    /\ ~crop.selection.is_dragging
    /\ crop' = [crop EXCEPT !.selection = CropSelection_start_handle_drag(@, handle, x, y)]
    /\ slast' = [op |-> "start_handle_drag"]
    /\ SelectionIdle

\* update_drag with the canvas bounds; a call that would panic ends the
\* program and is no step
UpdateDrag(x, y) ==
    /\ ~(crop.impl = "components" /\ Selection_panics(crop.selection, MaxCanvas, MaxCanvas))
    /\ crop' = [crop EXCEPT !.selection =
                   IF crop.impl = "widgets"
                   THEN CropSelection_update_drag(@, x, y, MaxCanvas, MaxCanvas)
                   ELSE Selection_update_drag(@, x, y, MaxCanvas, MaxCanvas)]
    /\ slast' = [op |-> "update_drag"]
    /\ SelectionIdle

EndDrag ==
    /\ crop' = [crop EXCEPT !.selection = CropSelection_end_drag(@)]
    /\ slast' = [op |-> "end_drag"]
    /\ SelectionIdle

SelectionNext ==
    \/ \E impl \in Implementations: NewSelection(impl)
    \/ \E p \in StartCoordinates: StartNewSelection(p[1], p[2])
    \/ \E handle \in DragHandles \ {"None"}, p \in StartCoordinates:
           StartHandleDrag(handle, p[1], p[2])
    \/ \E p \in CursorCoordinates: UpdateDrag(p[1], p[2])
    \/ EndDrag

(***************************************************************************)
(* The update loop (ui/update.rs) and the read model it keeps in step      *)
(* with the DocumentManager (ui/sync.rs).  Of the AppModel the fields the  *)
(* modelled handlers read are kept: tool_mode, crop_selection, scale,      *)
(* pan_x, pan_y, canvas_size, image_size, current_image_handle and         *)
(* current_dimensions (NoHandle and NoDimensions for None); view_mode,     *)
(* error, page and navigation fields are written and never read by them.   *)
(* The manager's current document is the variable document; manager holds  *)
(* its path, folder entries and index.                                     *)
(***************************************************************************)
NoHandle == [w |-> 0, h |-> 0, px |-> <<>>]

NoDimensions == <<>>

ToolModes == {"None", "Crop", "Scale"}

AppModel_reset_pan(model) == [model EXCEPT !.pan_x = R(0), !.pan_y = R(0)]

\* sync_model_from_manager: the model and the document after the call
sync_model_from_manager(model, d) ==
    IF d.kind # "None"
    THEN LET cached(r) ==
                 [model |-> [model EXCEPT
                      !.current_image_handle = r.out.handle,
                      !.current_dimensions =
                          <<DocumentContent_info(r.doc).width,
                            DocumentContent_info(r.doc).height>>],
                  doc |-> r.doc]
         IN cached(DocumentContent_render(d, 1))
    ELSE [model |-> [model EXCEPT !.current_image_handle = NoHandle,
                                  !.current_dimensions = NoDimensions],
          doc |-> d]

\* sync_render_data: the model and the document after the call
sync_render_data(model, d) ==
    IF d.kind # "None"
    THEN LET cached(r) ==
                 [model |-> [model EXCEPT
                      !.current_image_handle = r.out.handle,
                      !.current_dimensions =
                          <<DocumentContent_info(r.doc).width,
                            DocumentContent_info(r.doc).height>>],
                  doc |-> r.doc]
         IN cached(DocumentContent_render(d, model.scale))
    ELSE [model |-> model, doc |-> d]

TransformOperations == {"RotateCw", "RotateCcw", "FlipHorizontal", "FlipVertical"}

\* TransformDocumentCommand::execute on the manager's current document
TransformDocumentCommand_execute(d, operation) ==
    IF d.kind = "None" THEN [ok |-> FALSE, doc |-> d]
    ELSE [ok |-> TRUE,
          doc |-> CASE operation = "RotateCw" -> rotate_document_cw(d)
                    [] operation = "RotateCcw" -> rotate_document_ccw(d)
                    [] operation = "FlipHorizontal" -> flip_document_horizontal(d)
                    [] operation = "FlipVertical" -> flip_document_vertical(d)]

(***************************************************************************)
(* State of the update loop specification.                                 *)
(*   app     the AppModel                                                  *)
(*   ulast   history: the kind of the last message ("open", "navigate",    *)
(*           "transform", "apply_crop", "other"); ok: its handler changed  *)
(*           the document; stale: the selection was drawn before the       *)
(*           document last changed; was_stale: stale before an ApplyCrop   *)
(* together with document, manager and disk.                               *)
(***************************************************************************)
\* what the viewer widget reports: a canvas twice the size of the image
ViewerStates ==
    {[scale |-> 1, offset |-> <<R(0), R(0)>>,
      canvas_size |-> <<R(2 * MaxW), R(2 * MaxH)>>,
      image_size |-> <<R(MaxW), R(MaxH)>>]}

\* the paths the user opens: a folder of two images and a file that is none
UiOpenPaths == {<<"d">>, <<"d", "n", "txt">>}

\* canvas points of the crop gestures and the bounds reported with them
DragStartPoints == {<<0, 0>>}

DragMovePoints == {<<2 * MaxW, 2 * MaxH>>}

DragBounds == <<2 * MaxW, 2 * MaxH>>

UiDragHandles == {"None", "Move"}

UiInit ==
    /\ app = [tool_mode |-> "None",
              crop_selection |-> CropSelection_default,
              scale |-> 1,
              pan_x |-> R(0),
              pan_y |-> R(0),
              canvas_size |-> <<R(0), R(0)>>,
              image_size |-> <<R(0), R(0)>>,
              current_image_handle |-> NoHandle,
              current_dimensions |-> NoDimensions]
    /\ ulast = [op |-> "init", ok |-> FALSE, stale |-> FALSE, was_stale |-> FALSE]

UiIdle ==
    UNCHANGED <<origin, last, viewVars, probe, mapping, collectionVars, cacheVars,
                disk, mlast, selectionVars>>

\* the document the loader decoded for the manager's current path
LoadedDocument(m) ==
    IF m.current_document.kind = "None" THEN NoDoc
    ELSE Loader_load(m.current_document.kind, MaxW, MaxH).doc

\* the history after a message: changed tells whether the document changed
Handled(op, ok, changed, model) ==
    [op |-> op, ok |-> ok, was_stale |-> op = "apply_crop" /\ ulast.stale,
     stale |-> IF model.crop_selection.region = NoRegion THEN FALSE
               ELSE IF changed THEN TRUE
               ELSE ulast.stale]

\* the history after a gesture message that drew the selection anew
Drawn(op) == [op |-> op, ok |-> FALSE, was_stale |-> FALSE, stale |-> FALSE]

UiOpenPath(path) ==
    LET opened(r) ==
            IF r.ok
            THEN LET synced(s) ==
                         /\ app' = s.model
                         /\ document' = s.doc
                         /\ ulast' = Handled("open", TRUE, TRUE, s.model)
                 IN /\ manager' = r.manager
                    /\ synced(sync_model_from_manager(
                                  [AppModel_reset_pan(app) EXCEPT !.scale = 1],
                                  LoadedDocument(r.manager)))
            ELSE /\ manager' = r.manager
                 /\ ulast' = Handled("open", FALSE, FALSE, app)
                 /\ UNCHANGED <<app, document>>
    IN opened(DocumentManager_open_document(manager, disk, path)) /\ UiIdle

\* NextDocument and PrevDocument; allowed is the handler's tool mode test
UiNavigate(direction, allowed) ==
    IF allowed
    THEN LET moved(r) ==
                 IF r.ret # NoPath
                 THEN LET synced(s) ==
                              /\ app' = s.model
                              /\ document' = s.doc
                              /\ ulast' = Handled("navigate", TRUE, TRUE, s.model)
                      IN /\ manager' = r.manager
                         /\ synced(sync_model_from_manager(
                                       AppModel_reset_pan([app EXCEPT !.scale = 1]),
                                       LoadedDocument(r.manager)))
                 ELSE /\ manager' = r.manager
                      /\ ulast' = Handled("navigate", FALSE, FALSE, app)
                      /\ UNCHANGED <<app, document>>
         IN moved(IF direction = "Next"
                  THEN DocumentManager_next_document(manager, disk)
                  ELSE DocumentManager_previous_document(manager, disk)) /\ UiIdle
    ELSE /\ ulast' = Handled("navigate", FALSE, FALSE, app)
         /\ UNCHANGED <<app, document, manager>>
         /\ UiIdle

UiNextDocument == UiNavigate("Next", app.tool_mode # "Crop")

UiPrevDocument == UiNavigate("Previous", app.tool_mode # "Crop")

UiViewerStateChanged(v) ==
    /\ app' = [app EXCEPT !.scale = v.scale,
                          !.pan_x = v.offset[1],
                          !.pan_y = v.offset[2],
                          !.canvas_size = v.canvas_size,
                          !.image_size = v.image_size]
    /\ ulast' = Handled("other", FALSE, FALSE, app)
    /\ UNCHANGED <<document, manager>>
    /\ UiIdle

UiToggleCropMode ==
    /\ app' = [app EXCEPT !.tool_mode = IF @ = "Crop" THEN "None" ELSE "Crop"]
    /\ ulast' = Handled("other", FALSE, FALSE, app)
    /\ UNCHANGED <<document, manager>>
    /\ UiIdle

UiToggleScaleMode ==
    /\ app' = [app EXCEPT !.tool_mode = IF @ = "Scale" THEN "None" ELSE "Scale"]
    /\ ulast' = Handled("other", FALSE, FALSE, app)
    /\ UNCHANGED <<document, manager>>
    /\ UiIdle

UiStartCrop ==
    /\ app' = IF document.kind # "None"
              THEN [app EXCEPT !.tool_mode = "Crop",
                               !.crop_selection = CropSelection_reset(@)]
              ELSE app
    /\ ulast' = Handled("other", FALSE, FALSE, app')
    /\ UNCHANGED <<document, manager>>
    /\ UiIdle

UiCancelCrop ==
    /\ app' = IF app.tool_mode = "Crop"
              THEN [app EXCEPT !.tool_mode = "None",
                               !.crop_selection = CropSelection_reset(@)]
              ELSE app
    /\ ulast' = Handled("other", FALSE, FALSE, app')
    /\ UNCHANGED <<document, manager>>
    /\ UiIdle

UiApplyCrop ==
    LET region == CropSelection_to_crop_region(app.crop_selection)
        applied(r) ==
            IF r.ok
            THEN LET synced(s) ==
                         /\ app' = s.model
                         /\ document' = s.doc
                         /\ ulast' = Handled("apply_crop", TRUE, TRUE, s.model)
                 IN synced(sync_model_from_manager(
                               AppModel_reset_pan(
                                   [app EXCEPT !.tool_mode = "None",
                                               !.crop_selection = CropSelection_reset(@),
                                               !.scale = 1]),
                               r.doc))
            ELSE /\ ulast' = Handled("apply_crop", FALSE, FALSE, app)
                 /\ UNCHANGED <<app, document>>
        made(cmd) ==
            IF cmd.ok
            THEN applied(CropDocumentCommand_execute(
                             document, cmd.x, cmd.y, cmd.width, cmd.height))
            ELSE /\ ulast' = Handled("apply_crop", FALSE, FALSE, app)
                 /\ UNCHANGED <<app, document>>
    IN /\ IF app.tool_mode = "Crop" /\ region.some
          THEN made(CropDocumentCommand_from_canvas_selection(
                        <<R(region.x), R(region.y), R(region.width), R(region.height)>>,
                        app.canvas_size, app.image_size, R(app.scale),
                        <<app.pan_x, app.pan_y>>))
          ELSE /\ ulast' = Handled("apply_crop", FALSE, FALSE, app)
               /\ UNCHANGED <<app, document>>
       /\ UNCHANGED manager
       /\ UiIdle

UiCropDragStart(x, y, handle) ==
    /\ IF app.tool_mode = "Crop"
       THEN /\ app' = [app EXCEPT !.crop_selection =
                          IF handle = "None"
                          THEN CropSelection_start_new_selection(@, x, y)
                          ELSE CropSelection_start_handle_drag(@, handle, x, y)]
            /\ ulast' = IF handle = "None" THEN Drawn("other")
                        ELSE Handled("other", FALSE, FALSE, app)
       ELSE /\ ulast' = Handled("other", FALSE, FALSE, app)
            /\ UNCHANGED app
    /\ UNCHANGED <<document, manager>>
    /\ UiIdle

UiCropDragMove(x, y, max_x, max_y) ==
    /\ IF app.tool_mode = "Crop"
       THEN /\ app' = [app EXCEPT !.crop_selection =
                          CropSelection_update_drag(@, x, y, max_x, max_y)]
            /\ ulast' = IF app'.crop_selection # app.crop_selection
                        THEN Drawn("other")
                        ELSE Handled("other", FALSE, FALSE, app)
       ELSE /\ ulast' = Handled("other", FALSE, FALSE, app)
            /\ UNCHANGED app
    /\ UNCHANGED <<document, manager>>
    /\ UiIdle

UiCropDragEnd ==
    /\ app' = IF app.tool_mode = "Crop"
              THEN [app EXCEPT !.crop_selection = CropSelection_end_drag(@)]
              ELSE app
    /\ ulast' = Handled("other", FALSE, FALSE, app)
    /\ UNCHANGED <<document, manager>>
    /\ UiIdle

\* FlipHorizontal, FlipVertical, RotateCW and RotateCCW; allowed is the
\* handler's tool mode test
UiTransform(operation, allowed) ==
    /\ IF allowed
       THEN LET done(r) ==
                    IF r.ok
                    THEN LET synced(s) ==
                                 /\ app' = s.model
                                 /\ document' = s.doc
                                 /\ ulast' = Handled("transform", TRUE, TRUE, s.model)
                         IN synced(sync_render_data(app, r.doc))
                    ELSE /\ ulast' = Handled("transform", FALSE, FALSE, app)
                         /\ UNCHANGED <<app, document>>
            IN done(TransformDocumentCommand_execute(document, operation))
       ELSE /\ ulast' = Handled("transform", FALSE, FALSE, app)
            /\ UNCHANGED <<app, document>>
    /\ UNCHANGED manager
    /\ UiIdle

UiFlipHorizontal == UiTransform("FlipHorizontal", app.tool_mode # "Crop")

UiFlipVertical == UiTransform("FlipVertical", app.tool_mode # "Crop")

\* variant: a rotation is not held back in Crop mode
UiRotateCW_in_crop_mode == UiTransform("RotateCw", TRUE)

UiRotateCW == UiTransform("RotateCw", app.tool_mode # "Crop")

UiRotateCCW == UiTransform("RotateCcw", app.tool_mode # "Crop")

UiNext ==
    \/ \E path \in UiOpenPaths: UiOpenPath(path)
    \/ UiNextDocument
    \/ UiPrevDocument
    \/ \E v \in ViewerStates: UiViewerStateChanged(v)
    \/ UiToggleCropMode
    \/ UiToggleScaleMode
    \/ UiStartCrop
    \/ UiCancelCrop
    \/ UiApplyCrop
    \/ \E p \in DragStartPoints, handle \in UiDragHandles:
           UiCropDragStart(p[1], p[2], handle)
    \/ \E p \in DragMovePoints: UiCropDragMove(p[1], p[2], DragBounds[1], DragBounds[2])
    \/ UiCropDragEnd
    \/ UiFlipHorizontal
    \/ UiFlipVertical
    \/ UiRotateCW
    \/ UiRotateCCW

(***************************************************************************)
(* Specifications: the document operations, and the viewport operations.   *)
(***************************************************************************)
Init ==
    /\ DocInit /\ ViewInit /\ MappingInit /\ CollectionInit /\ CacheInit /\ ManagerInit
    /\ SelectionInit /\ UiInit

Spec == Init /\ [][DocNext]_vars

SpecView == Init /\ [][ViewNext]_vars

SpecCamera == Init /\ [][CameraNext]_vars

SpecMapping == Init /\ [][MappingNext]_vars

SpecCollection == Init /\ [][CollectionNext]_vars

SpecCache == Init /\ [][CacheNext]_vars

SpecManager == Init /\ [][ManagerNext]_vars

SpecTransform == Init /\ [][TransformNext]_vars

SpecFit == Init /\ [][FitNext]_vars

SpecSelection == Init /\ [][SelectionNext]_vars

SpecUi == Init /\ [][UiNext]_vars

(***************************************************************************)
(* Properties of the document variants.                                    *)
(***************************************************************************)
\* the image a re-render produces from a source: flip(s), then quarter turns
FlipThenRotate(img, transform) ==
    LET fh == IF transform.flip_h THEN flip_horizontal(img) ELSE img
        fv == IF transform.flip_v THEN flip_vertical(fh) ELSE fh
    IN CASE transform.rotation.rot = "None" -> fv
         [] transform.rotation.rot = "Cw90" -> rotate90(fv)
         [] transform.rotation.rot = "Cw180" -> rotate180(fv)
         [] transform.rotation.rot = "Cw270" -> rotate270(fv)

\* C1: after any sequence of quantized rotations and flips on a raster, the
\* pixels are the loaded image with the recorded flips applied first and the
\* recorded rotation second, which is what render_document yields from the
\* same transform state.
C1_RasterEqualsFlipThenRotate ==
    (document.kind = "Raster" /\ origin.exact
        /\ document.transform.rotation.mode = "Standard")
    => /\ document.document = FlipThenRotate(origin.image, document.transform)
       /\ LET r == render_document(origin.image, origin.image.w, origin.image.h,
                                   1, document.transform)
          IN r.ok => document.document = r.image

RotateRun == last.op \in {"rotate_cw", "rotate_ccw"} /\ last.n = 4

\* C2 as stated: four consecutive rotate_document_cw (or _ccw) calls on any
\* document with a quantized rotation restore transform_state() and the
\* reported width and height.
C2_FourRotationsRoundTrip_AllDocuments ==
    (RotateRun /\ last.pre.transform.rotation.mode = "Standard")
    => /\ DocumentContent_transform_state(document) = DocumentContent_transform_state(last.pre)
       /\ DocumentContent_dimensions(document) = DocumentContent_dimensions(last.pre)

\* a vector or paginated document whose cached rasterization is the full render
FullRender(d) ==
    LET r == render_document(d.document, d.native_width, d.native_height,
                             d.current_scale, d.transform)
    IN r.ok /\ d.rendered = r.image /\ d.width = r.width /\ d.height = r.height

\* C2 (amended): four consecutive rotate_document_cw (or _ccw) calls restore
\* transform_state() and the reported width and height of every raster with a
\* quantized rotation and of every vector or paginated document whose cached
\* rasterization was not cropped.
C2_FourRotationsRoundTrip ==
    (RotateRun /\ last.pre.transform.rotation.mode = "Standard"
        /\ (last.pre.kind = "Raster" \/ FullRender(last.pre)))
    => /\ DocumentContent_transform_state(document) = DocumentContent_transform_state(last.pre)
       /\ DocumentContent_dimensions(document) = DocumentContent_dimensions(last.pre)

C2_Witness ==
    /\ last.op = "rotate_cw" /\ last.n = 4
    /\ last.pre.kind = "Raster"
    /\ last.pre.transform.rotation = Standard("Cw90")
    /\ last.pre.transform.flip_h
    /\ last.pre.document.w # last.pre.document.h

\* C3: flipping twice on the same axis restores transform_state() of every
\* document and, for a raster, the pixel content.
C3_DoubleFlipIsIdentity ==
    (last.op = "flip" /\ last.n = 2)
    => /\ DocumentContent_transform_state(document) = DocumentContent_transform_state(last.pre)
       /\ document.kind = "Raster" => document.document = last.pre.document

C3_Witness ==
    /\ last.op = "flip" /\ last.n = 2 /\ last.arg = <<"Horizontal">>
    /\ document.kind = "Raster"
    /\ origin.exact
    /\ document.document.w > 1
    /\ document.transform.rotation = Standard("Cw180")

RasterCropDone == last.op = "crop" /\ last.pre.kind = "Raster"

CropX == last.arg[1]

CropY == last.arg[2]

CropW == last.arg[3]

CropH == last.arg[4]

\* C4: a raster crop whose offset is outside the image, or whose clamped
\* width or height is 0, fails and leaves buffer, native dimensions,
\* transform state and display handle untouched.
C4_InvalidCropChangesNothing ==
    (RasterCropDone
        /\ (\/ CropX >= last.pre.document.w
            \/ CropY >= last.pre.document.h
            \/ Min(CropW, last.pre.document.w - CropX) = 0
            \/ Min(CropH, last.pre.document.h - CropY) = 0))
    => /\ ~last.ok
       /\ document = last.pre

C4_Witness ==
    /\ RasterCropDone
    /\ CropX >= last.pre.document.w
    /\ ~last.ok
    /\ last.pre.transform.rotation = Standard("Cw90")
    /\ last.pre.transform.flip_v

\* C5: a raster crop with its offset inside the W x H image and a non-zero
\* extent succeeds and commits exactly (x, y, min(w, W - x), min(h, H - y)).
C5_CropClampsToBounds ==
    (RasterCropDone
        /\ CropX < last.pre.document.w /\ CropY < last.pre.document.h
        /\ CropW > 0 /\ CropH > 0)
    => LET cw == Min(CropW, last.pre.document.w - CropX)
           ch == Min(CropH, last.pre.document.h - CropY)
       IN /\ last.ok
          /\ document.document = crop_imm(last.pre.document, CropX, CropY, cw, ch)
          /\ Raster_dimensions(document) = <<cw, ch>>
          /\ crop_image(last.pre.document, CropX, CropY, CropW, CropH)
                = [some |-> TRUE, image |-> document.document]

C5_Witness ==
    /\ RasterCropDone /\ last.ok
    /\ CropX > 0
    /\ CropX + CropW > last.pre.document.w
    /\ Raster_dimensions(document) = <<last.pre.document.w - CropX, CropH>>

\* C6: after a successful raster crop the transform state is the identity,
\* the accumulated fine angle is 0 and info() reports the committed size,
\* whatever was applied before.
C6_CropResetsTransform ==
    (RasterCropDone /\ last.ok)
    => /\ DocumentContent_transform_state(document) = TransformState_default
       /\ document.fine_rotation_angle = 0
       /\ Raster_info(document).width = Min(CropW, last.pre.document.w - CropX)
       /\ Raster_info(document).height = Min(CropH, last.pre.document.h - CropY)

C6_Witness ==
    /\ RasterCropDone /\ last.ok
    /\ last.pre.transform.rotation.mode = "Fine"
    /\ last.pre.fine_rotation_angle # 0
    /\ last.pre.transform.flip_h
    /\ Raster_info(document).width < last.pre.native_width

\* C7: the crop command fails and changes nothing when no document is open
\* or the current one is not a raster; can_execute holds exactly for a raster.
C7_CropOnlyOnRaster ==
    /\ (last.op = "crop" /\ last.pre.kind # "Raster")
        => (~last.ok /\ document = last.pre)
    /\ CropDocumentCommand_can_execute(document) <=> (document.kind = "Raster")

C7_Witness ==
    /\ last.op = "crop"
    /\ last.pre.kind = "Portable"
    /\ ~CropDocumentCommand_can_execute(document)

(***************************************************************************)
(* Properties of the viewport.                                             *)
(***************************************************************************)
\* C8: in Fit mode the scale is min(canvas_w / doc_w, canvas_h / doc_h) of
\* the current canvas and document size, and 1 when a document side is 0.
C8_FitScaleIsCurrent ==
    viewport.view_mode = "Fit"
    => viewport.scale =
        IF viewport.document_width = R(0) \/ viewport.document_height = R(0)
        THEN R(1)
        ELSE RMin(RDiv(viewport.canvas_width, viewport.document_width),
                  RDiv(viewport.canvas_height, viewport.document_height))

C8_Witness ==
    /\ viewport.view_mode = "Fit"
    /\ vlast = "set_document_size"
    /\ viewport.document_width = R(2)
    /\ viewport.canvas_width = R(4)
    /\ viewport.scale = <<1, 2>>

\* C9: the scale of the viewport is strictly positive in every reachable
\* state, the Fit-mode recomputation included.
C9_ScaleIsPositive == RLt(R(0), viewport.scale)

\* C10: set_scale, zoom_in and zoom_out leave the scale at 0.01 or more and
\* the mode Custom, and change neither pan nor canvas size nor document size.
C10_SetScaleFloorsAndGoesCustom ==
    [][vlast' \in {"set_scale", "zoom_in", "zoom_out"}
        => /\ RLe(MinScale, viewport'.scale)
           /\ viewport'.view_mode = "Custom"
           /\ viewport'.pan_x = viewport.pan_x
           /\ viewport'.pan_y = viewport.pan_y
           /\ viewport'.canvas_width = viewport.canvas_width
           /\ viewport'.canvas_height = viewport.canvas_height
           /\ viewport'.document_width = viewport.document_width
           /\ viewport'.document_height = viewport.document_height]_vars

C10_Witness ==
    /\ vlast = "zoom_out"
    /\ viewport.scale = MinScale
    /\ viewport.view_mode = "Custom"
    /\ viewport.pan_x # R(0)
    /\ viewport.document_width # R(0)

\* C11: set_pan and pan_by never leave the viewport in Fit mode: from Fit they
\* go to Custom, from ActualSize or Custom the mode stays; scale, canvas size
\* and document size are unchanged in every case.
C11_PanLeavesFit ==
    [][vlast' \in {"set_pan", "pan_by"}
        => /\ viewport'.view_mode # "Fit"
           /\ viewport'.view_mode =
                 (IF viewport.view_mode = "Fit" THEN "Custom" ELSE viewport.view_mode)
           /\ viewport'.scale = viewport.scale
           /\ viewport'.canvas_width = viewport.canvas_width
           /\ viewport'.canvas_height = viewport.canvas_height
           /\ viewport'.document_width = viewport.document_width
           /\ viewport'.document_height = viewport.document_height]_vars

\* a pan that met the viewport in Fit mode: a scale of 0 is only ever stored
\* by the Fit recomputation, and it is still there after the pan
C11_Witness ==
    /\ vlast = "pan_by"
    /\ viewport.view_mode = "Custom"
    /\ viewport.scale = R(0)
    /\ viewport.pan_x # R(0)

\* C12 (as stated): in every viewport state with scale > 0, for every point p,
\* screen_to_document(document_to_screen(p)) = p and
\* document_to_screen(screen_to_document(p)) = p.
C12_ConversionRoundTrip_AnyPositiveScale ==
    (probe.op = "convert" /\ RLt(R(0), viewport.scale))
    => (probe.back = probe.p /\ probe.forth = probe.p)

\* C12: in every viewport state whose scale is finite and > 0 and whose pan
\* offset is finite, for every point p, screen_to_document(document_to_screen(p))
\* = p and document_to_screen(screen_to_document(p)) = p, the document origin
\* on screen being ((canvas_w - doc_w * scale) / 2 + pan_x, likewise for y).
C12_ConversionRoundTrip ==
    (/\ probe.op = "convert"
     /\ RLt(R(0), viewport.scale)
     /\ IsFinite(viewport.scale)
     /\ IsFinite(viewport.pan_x)
     /\ IsFinite(viewport.pan_y))
    => /\ probe.back = probe.p
       /\ probe.forth = probe.p
       /\ Viewport_document_to_screen(viewport, R(0), R(0)) =
            <<RAdd(RDiv(RSub(viewport.canvas_width,
                             RMul(viewport.document_width, viewport.scale)), R(2)),
                   viewport.pan_x),
              RAdd(RDiv(RSub(viewport.canvas_height,
                             RMul(viewport.document_height, viewport.scale)), R(2)),
                   viewport.pan_y)>>

C12_Witness ==
    /\ probe.op = "convert"
    /\ viewport.scale = <<1, 2>>
    /\ viewport.pan_x = R(1)
    /\ viewport.document_width = R(2)
    /\ viewport.canvas_width = R(4)
    /\ probe.screen # probe.p
    /\ probe.back = probe.p

\* C13: after zoom_at_point(sx, sy, factor) the document point that was under
\* (sx, sy) before the call is mapped to (sx, sy) by document_to_screen, also
\* when the scale was floored and when the viewport was in Fit mode before.
C13_ZoomKeepsPointUnderCursor ==
    probe.op = "zoom_at_point"
    => Viewport_document_to_screen(viewport, probe.doc[1], probe.doc[2]) = probe.p

(***************************************************************************)
(* Properties of the selection mapping.                                    *)
(***************************************************************************)
\* C14: from_canvas_selection never returns a command whose width or height
\* is 0 or 1: a region of width <= 1 or height <= 1 after clamping to the
\* image is refused.
C14_DegenerateRegionRefused ==
    (mapping.op = "from_canvas_selection" /\ mapping.result.ok)
    => (mapping.result.width > 1 /\ mapping.result.height > 1)

\* C15: every command from_canvas_selection returns lies inside the image
\* after rounding: x <= width, y <= height, x + width <= image width and
\* y + height <= image height.
C15_RegionInsideImage ==
    (mapping.op = "from_canvas_selection" /\ mapping.result.ok)
    => /\ RLe(R(mapping.result.x), mapping.image_size[1])
       /\ RLe(R(mapping.result.y), mapping.image_size[2])
       /\ RLe(R(mapping.result.x + mapping.result.width), mapping.image_size[1])
       /\ RLe(R(mapping.result.y + mapping.result.height), mapping.image_size[2])

(***************************************************************************)
(* Properties of the document collection.                                  *)
(***************************************************************************)
\* C16: next() at the last index, previous() at index 0, and either on an
\* empty collection return None and change neither the index nor the held
\* document; otherwise they move the index by exactly one and return it.
C16_NavigationStopsAtEnds ==
    /\ clast.op = "next" =>
         IF clast.pre.current_index = NoIndex
            \/ clast.pre.current_index = Len(clast.pre.paths) - 1
         THEN clast.ret = NoIndex /\ collection = clast.pre
         ELSE /\ collection.current_index = clast.pre.current_index + 1
              /\ clast.ret = collection.current_index
              /\ collection.paths = clast.pre.paths
    /\ clast.op = "previous" =>
         IF clast.pre.current_index = NoIndex \/ clast.pre.current_index = 0
         THEN clast.ret = NoIndex /\ collection = clast.pre
         ELSE /\ collection.current_index = clast.pre.current_index - 1
              /\ clast.ret = collection.current_index
              /\ collection.paths = clast.pre.paths

\* next() refused at the last of three paths while a document was held
C16_Witness ==
    /\ clast.op = "next"
    /\ clast.ret = NoIndex
    /\ Len(collection.paths) = 3
    /\ collection.current_index = 2
    /\ collection.current_document # NoDocument

\* C17: every successful index change (next, previous, goto with a valid
\* index) leaves the held document cleared; a goto with index >= len fails
\* and changes neither the index nor the held document.
C17_IndexChangeClearsDocument ==
    /\ (clast.op \in {"next", "previous"} /\ clast.ret # NoIndex)
        => collection.current_document = NoDocument
    /\ clast.op = "goto" =>
         IF clast.arg < Len(clast.pre.paths)
         THEN /\ clast.ret = TRUE
              /\ collection.current_index = clast.arg
              /\ collection.current_document = NoDocument
         ELSE /\ clast.ret = FALSE
              /\ collection = clast.pre

\* a goto that succeeded on a collection holding a document
C17_Witness ==
    /\ clast.op = "goto"
    /\ clast.ret = TRUE
    /\ clast.pre.current_document # NoDocument
    /\ clast.arg # clast.pre.current_index
    /\ collection.current_document = NoDocument

\* C18: remove_at(i) with a valid i: on the current index it clears the held
\* document and keeps the index (the item that shifted into the slot), or
\* takes len - 1 if the removed item was last, or None if nothing is left;
\* before the current index it lowers the index by one, which designates the
\* same path as before; after it the index is unchanged; an invalid i
\* returns None and changes nothing.
C18_RemoveAtKeepsSelection ==
    clast.op = "remove_at" =>
        LET pre == clast.pre
            i == clast.arg
            n == Len(pre.paths)
        IN IF i >= n
           THEN clast.ret = NoDocument /\ collection = pre
           ELSE /\ clast.ret = pre.paths[i + 1]
                /\ Len(collection.paths) = n - 1
                /\ \A k \in 1..(n - 1):
                      collection.paths[k] = pre.paths[IF k <= i THEN k ELSE k + 1]
                /\ CASE pre.current_index = i ->
                          /\ collection.current_document = NoDocument
                          /\ collection.current_index =
                               (IF n = 1 THEN NoIndex
                                ELSE IF i = n - 1 THEN n - 2
                                ELSE i)
                     [] pre.current_index > i ->
                          /\ collection.current_index = pre.current_index - 1
                          /\ Collection_current_path(collection)
                               = Collection_current_path(pre)
                          /\ collection.current_document = pre.current_document
                     [] OTHER ->
                          /\ collection.current_index = pre.current_index
                          /\ collection.current_document = pre.current_document

\* a removal before the current item of a collection holding its document
C18_Witness ==
    /\ clast.op = "remove_at"
    /\ clast.arg = 0
    /\ clast.pre.current_index = 2
    /\ clast.pre.paths = <<"a", "b", "c">>
    /\ clast.pre.current_document = "c"
    /\ collection.current_index = 1

\* C19: while every set_current_document stored the document loaded from
\* current_path() at that moment, a held document is the one loaded from the
\* path current_path() returns now.
C19_HeldDocumentIsCurrentPath ==
    (disciplined /\ collection.current_document # NoDocument)
    => collection.current_document = Collection_current_path(collection)

\* the document of "b" still held after the path before it was removed and
\* another was added
C19_Witness ==
    /\ disciplined
    /\ collection.current_document = "b"
    /\ clast.op = "add_path"
    /\ collection.paths = <<"b", "c", "a">>
    /\ collection.current_index = 0

(***************************************************************************)
(* Properties of the thumbnail cache.                                      *)
(***************************************************************************)
\* the load just made asked for the path and page of the last save
LoadAfterSave ==
    /\ tlast.op = "load"
    /\ saved.some
    /\ tlast.path = saved.path
    /\ tlast.page = saved.page

\* C20: load(path, page) after save(path, page, img) returns the saved image
\* while the modification time of the file is what it was at the save, and
\* returns None once the modification time has changed.
C20_LoadFollowsMtime ==
    LoadAfterSave =>
        IF files[tlast.path] = saved.mtime
        THEN tlast.ret = [some |-> TRUE,
                          handle |-> create_image_handle_from_image(saved.image)]
        ELSE tlast.ret = NoEntry

\* C21: load never gives a false hit: a load that returns the image of the
\* last save of its path and page finds the file with the modification time
\* it had at that save, and whatever load(path, page) returns was stored
\* under a key made from that same path and page.
C21_NoFalseHit ==
    (tlast.op = "load" /\ tlast.ret.some) =>
        /\ (LoadAfterSave
              /\ tlast.ret.handle = create_image_handle_from_image(saved.image))
            => files[tlast.path] = saved.mtime
        /\ \E name \in DOMAIN cache:
              /\ name[1][1] = tlast.path
              /\ name[1][3] = tlast.page
              /\ tlast.ret.handle =
                     create_image_handle_from_image(PngDecode(cache[name]))

(***************************************************************************)
(* Properties of the document manager.                                     *)
(***************************************************************************)
\* C22: a failed open_document leaves the current document, path, metadata,
\* folder entries and current index as they were before the call.
C22_FailedOpenChangesNothing ==
    (mlast.op = "open_document" /\ ~mlast.ok) => manager = mlast.pre

(***************************************************************************)
(* Properties of the rotation state.                                       *)
(***************************************************************************)
\* the quantized rotations nearest to an accumulated angle of a degrees:
\* round(a / 90) * 90 mod 360, either neighbour when a lies half way
NearestQuarters(a) ==
    {RotationOfNormalized((k * 90) % 360) :
        k \in {j \in -4..4 : Abs(a - 90 * j) <= 45}}

\* a single rotate_document_cw or rotate_document_ccw has just run on a
\* raster document that was in a fine-angle state
QuarterTurnFromFine ==
    /\ last.op \in {"rotate_cw", "rotate_ccw"}
    /\ last.n = 1
    /\ last.pre.kind = "Raster"
    /\ last.pre.transform.rotation.mode = "Fine"

\* C23: rotate_document_cw (rotate_document_ccw) on Fine(a) leaves the
\* rotation at the quantized value nearest to a advanced (retreated) by one
\* step of the cycle 0, 90, 180, 270, for negative angles too.
C23_QuarterTurnFromFineAngle ==
    QuarterTurnFromFine =>
        \E q \in NearestQuarters(last.pre.transform.rotation.deg):
            document.transform.rotation =
                Standard(IF last.op = "rotate_cw"
                         THEN Rotation_rotate_cw(q) ELSE Rotation_rotate_ccw(q))

\* C24: after reset_document_transforms, from any quantized rotation, flip
\* combination or fine-angle state, transform_state() is the identity and
\* the accumulated fine angle of a raster document is 0.
C24_ResetGivesIdentity ==
    last.op = "reset" =>
        /\ DocumentContent_transform_state(document) = TransformState_default
        /\ document.kind = "Raster" => document.fine_rotation_angle = 0

\* a raster document rotated by a fine angle and flipped on both axes has
\* been reset
C24_Witness ==
    /\ last.op = "reset"
    /\ document.kind = "Raster"
    /\ last.arg[1].rotation.mode = "Fine"
    /\ last.arg[1].rotation.deg # 0
    /\ last.arg[1].flip_h
    /\ last.arg[1].flip_v

\* C25: in a raster document the rotation is either quantized or fine: with
\* Standard(_) the accumulated fine angle is 0, with Fine(a) it is a; a
\* quantized rotate leaves a Standard state and rotate_fine a Fine one.
C25_QuantizedXorFine ==
    document.kind = "Raster" =>
        /\ document.transform.rotation.mode = "Standard"
              => document.fine_rotation_angle = 0
        /\ document.transform.rotation.mode = "Fine"
              => document.transform.rotation.deg = document.fine_rotation_angle
        /\ last.op = "rotate_to"
              => document.transform.rotation = Standard(last.arg[1])
        /\ last.op = "rotate_fine"
              => document.transform.rotation.mode = "Fine"

\* a quantized rotate has just run on a raster document that was in a
\* fine-angle state
C25_Witness ==
    /\ document.kind = "Raster"
    /\ last.op = "rotate_to"
    /\ last.arg[2].mode = "Fine"
    /\ last.arg[1] = "Cw90"

\* the width and height render() reports for the document as it is
ReportedSize(d) ==
    LET size(out) == <<out.width, out.height>>
    IN size(DocumentContent_render(d, IF d.kind = "Raster" THEN 1 ELSE d.current_scale).out)

\* C26: with a quantized rotation recorded, the reported width and height
\* are dimensions_after_rotation of the unrotated size: swapped at 90 and 270
\* degrees, as they are at 0 and 180 (raster: pixels derived from the loaded
\* or cropped image by quarter turns and flips; vector and paginated: the
\* uncropped rasterization at the current scale).
C26_QuarterTurnSwapsDimensions ==
    (document.kind # "None" /\ document.transform.rotation.mode = "Standard") =>
        /\ (document.kind = "Raster" /\ origin.exact)
              => ReportedSize(document) =
                     dimensions_after_rotation(origin.image.w, origin.image.h,
                                               document.transform.rotation.rot)
        /\ (document.kind # "Raster" /\ FullRender(document))
              => ReportedSize(document) =
                     dimensions_after_rotation(
                         Max(document.native_width * document.current_scale,
                             MIN_PIXMAP_SIZE),
                         Max(document.native_height * document.current_scale,
                             MIN_PIXMAP_SIZE),
                         document.transform.rotation.rot)

\* a vector document that is not square has been turned to 270 degrees by
\* rotate_document_ccw
C26_Witness ==
    /\ document.kind = "Vector"
    /\ last.op = "rotate_ccw"
    /\ document.transform.rotation = Standard("Cw270")
    /\ FullRender(document)
    /\ document.width # document.height
    /\ document.current_scale > 1

\* the width and height of a RenderOutput are those of the pixels behind
\* its handle
SizeMatchesHandle(out) ==
    /\ out.width = out.handle.w
    /\ out.height = out.handle.h

\* C27: in every reachable state of a raster or vector document, the width
\* and height render() returns, at any scale, are the dimensions of the
\* pixel data behind the display handle it returns.
C27_RenderSizeMatchesHandle ==
    document.kind \in {"Raster", "Vector"} =>
        \A scale \in Scales: SizeMatchesHandle(DocumentContent_render(document, scale).out)

\* a raster document has been resized to a format of another shape
C27_Witness ==
    /\ document.kind = "Raster"
    /\ last.op = "resize_to_format"
    /\ <<document.document.w, document.document.h>>
           # <<document.native_width, document.native_height>>
    /\ document.document.w # document.document.h

(***************************************************************************)
(* Properties of the vector document.                                      *)
(***************************************************************************)
\* the size of the uncropped document rasterized at a scale
UncroppedSize(d, scale) ==
    dimensions_after_rotation(Max(d.native_width * scale, MIN_PIXMAP_SIZE),
                              Max(d.native_height * scale, MIN_PIXMAP_SIZE),
                              d.transform.rotation.rot)

\* a step of VectorDocument::crop changes the cached rasterization, its
\* handle and the rendered width and height only
CropTouchesRenderOnly ==
    (last'.op = "vector_crop" /\ document.kind = "Vector") =>
        /\ document' = [document EXCEPT
                           !.rendered = document'.rendered,
                           !.handle = document'.handle,
                           !.width = document'.width,
                           !.height = document'.height]
        /\ <<document'.width, document'.height>>
               = <<document'.rendered.w, document'.rendered.h>>
        /\ document'.width <= document.width
        /\ document'.height <= document.height

\* a step that renders a vector document at another scale than its current one
RenderAtOtherScale ==
    /\ last'.op = "render"
    /\ document.kind = "Vector"
    /\ last'.arg[1] # document.current_scale

\* C28 as stated: crop touches the rasterization and the rendered size only,
\* and every later render at a different scale reports the size of the
\* uncropped document at that scale.
C28_RenderAfterCropIsUncropped_Always ==
    [][/\ CropTouchesRenderOnly
       /\ RenderAtOtherScale =>
             <<document'.width, document'.height>>
                 = UncroppedSize(document, last'.arg[1])]_vars

\* C28 (amended): crop touches the rasterization and the rendered size only;
\* a later render at a different scale whose pixmap can be created reports
\* the size of the uncropped document at that scale and holds its full
\* rasterization, and one whose pixmap cannot be created changes nothing.
C28_RenderAfterCropIsUncropped ==
    [][/\ CropTouchesRenderOnly
       /\ RenderAtOtherScale =>
             IF PixmapFits(Max(document.native_width * last'.arg[1], MIN_PIXMAP_SIZE),
                           Max(document.native_height * last'.arg[1], MIN_PIXMAP_SIZE))
             THEN /\ <<document'.width, document'.height>>
                         = UncroppedSize(document, last'.arg[1])
                  /\ document'.current_scale = last'.arg[1]
                  /\ FullRender(document')
             ELSE document' = document]_vars

\* a vector document whose rasterization had been cropped has been rendered
\* at another scale and reports the uncropped size again
C28_Witness ==
    /\ document.kind = "Vector"
    /\ last.op = "render"
    /\ last.arg[3] # last.arg[1]
    /\ document.current_scale = last.arg[1]
    /\ last.arg[2] # UncroppedSize(document, last.arg[3])
    /\ <<document.width, document.height>> = UncroppedSize(document, last.arg[1])

\* the displayed pixels of a vector document are the rasterization of its
\* scene at the current scale under transform_state(), or a rectangle cut
\* out of it by crop
DisplayedUnderTransform(d) ==
    LET shown(r) ==
            /\ r.ok
            /\ d.handle = d.rendered
            /\ d.width = d.rendered.w
            /\ d.height = d.rendered.h
            /\ \E x \in 0..(r.width - d.width), y \in 0..(r.height - d.height):
                  crop_imm(r.image, x, y, d.width, d.height) = d.rendered
    IN shown(render_document(d.document, d.native_width, d.native_height,
                             d.current_scale, d.transform))

\* C29: rotate and flip of a vector document never leave a transform_state()
\* that disagrees with the transform of the displayed pixels: in every
\* reachable state the displayed pixels are those rendered under the
\* recorded transform.
C29_VectorTransformMatchesPixels ==
    document.kind = "Vector" => DisplayedUnderTransform(document)

\* a vector document rendered at a larger scale has been turned and then
\* mirrored
C29_Witness ==
    /\ document.kind = "Vector"
    /\ last.op = "flip_direct"
    /\ document.transform.rotation = Standard("Cw90")
    /\ document.transform.flip_h
    /\ document.current_scale > 1
    /\ document.rendered # document.document

(***************************************************************************)
(* Properties of the scale helpers.                                        *)
(***************************************************************************)
\* the rational n/d equals a/b, for b > 0
IsRatio(q, a, b) == q[2] > 0 /\ q[1] * b = a * q[2]

\* C30: calculate_fit_scale(width, height, target_width, target_height) is
\* the smaller of target_width/width and target_height/height, 1/2 for
\* (1600, 1200, 800, 600) and (200, 100, 100, 100), and 1 when width or
\* height is 0; Viewport::calculate_fit_scale gives the same value for the
\* same canvas and document size.
C30_FitScaleIsSmallerRatio ==
    probe.op = "calculate_fit_scale" =>
        /\ IF probe.width = 0 \/ probe.height = 0
           THEN probe.ret = R(1)
           ELSE /\ \/ IsRatio(probe.ret, probe.target_width, probe.width)
                   \/ IsRatio(probe.ret, probe.target_height, probe.height)
                /\ probe.ret[1] * probe.width <= probe.target_width * probe.ret[2]
                /\ probe.ret[1] * probe.height <= probe.target_height * probe.ret[2]
        /\ (<<probe.width, probe.height, probe.target_width, probe.target_height>>
               \in {<<1600, 1200, 800, 600>>, <<200, 100, 100, 100>>})
              => probe.ret = <<1, 2>>
        /\ probe.viewport_ret = probe.ret

\* the landscape document of the example, limited by its width
C30_Witness ==
    /\ probe.op = "calculate_fit_scale"
    /\ <<probe.width, probe.height, probe.target_width, probe.target_height>>
           = <<200, 100, 100, 100>>
    /\ probe.ret = <<1, 2>>
    /\ probe.viewport_ret = <<1, 2>>

\* next_document or previous_document has just been called
Navigated == mlast.op \in {"next_document", "previous_document"}

\* the entry a navigation from the last (next) or first (previous) entry
\* has to open: the first, respectively the last, of the list
WrapTarget ==
    IF mlast.op = "next_document"
    THEN mlast.pre.folder_entries[1]
    ELSE mlast.pre.folder_entries[Len(mlast.pre.folder_entries)]

\* the navigation started at the end of the list it moves towards
AtWrapEnd ==
    /\ mlast.pre.folder_entries # <<>>
    /\ mlast.pre.current_index =
           IF mlast.op = "next_document"
           THEN Len(mlast.pre.folder_entries) - 1 ELSE 0

SameDocumentPathIndex(m1, m2) ==
    /\ m1.current_document = m2.current_document
    /\ m1.current_path = m2.current_path
    /\ m1.current_index = m2.current_index

\* C31: next_document wraps from the last folder entry to the first and
\* previous_document from the first to the last; each returns the opened path
\* on success, and returns None with the current document, path and index
\* unchanged when the folder list is empty or the target fails to load.
C31_NavigationWraps ==
    Navigated =>
        /\ mlast.pre.folder_entries = <<>>
              => (mlast.ret = NoPath /\ SameDocumentPathIndex(manager, mlast.pre))
        /\ mlast.ret = NoPath => SameDocumentPathIndex(manager, mlast.pre)
        /\ mlast.ret # NoPath
              => /\ manager.current_path = mlast.ret
                 /\ manager.current_document.source = mlast.ret
                 /\ disk[mlast.ret] = "ok"
        /\ AtWrapEnd
              => IF disk[WrapTarget] = "ok"
                 THEN mlast.ret = WrapTarget
                 ELSE mlast.ret = NoPath

\* next_document called at the last of two entries has opened the first
C31_Witness ==
    /\ mlast.op = "next_document"
    /\ Len(mlast.pre.folder_entries) = 2
    /\ mlast.pre.current_index = 1
    /\ mlast.ret = mlast.pre.folder_entries[1]
    /\ manager.current_index = 0

(***************************************************************************)
(* Properties of the raster pixels.                                        *)
(***************************************************************************)
\* the quarter turn that leads from rotation from to rotation to
Increment(from, to) ==
    RotationOfNormalized((to_degrees(to) - to_degrees(from) + 360) % 360)

\* a step of RasterDocument::rotate on a quantized state turns the pixels by
\* the difference between the requested and the recorded rotation
RotateAppliesIncrement ==
    (/\ last'.op = "rotate_to"
     /\ document.kind = "Raster"
     /\ document.transform.rotation.mode = "Standard")
    => document'.document =
           apply_rotation(document.document,
                          Increment(document.transform.rotation.rot, last'.arg[1]))

\* without flips or fine rotation the pixels are the loaded (or last
\* cropped) image turned by the recorded rotation
PixelsFollowRotation ==
    (/\ document.kind = "Raster"
     /\ origin.exact
     /\ origin.unflipped)
    => document.document =
           apply_rotation(origin.image, document.transform.rotation.rot)

\* C32: RasterDocument.rotate(r) turns the pixels by exactly (r - current)
\* mod 360, so rotate(r) on Standard(r) leaves them unchanged, and after
\* rotate calls alone the pixels are the loaded image rotated by the
\* recorded rotation.
C32_RotateAppliesIncrement ==
    []PixelsFollowRotation /\ [][RotateAppliesIncrement]_vars

\* a raster image that is not square, recorded at 90 degrees, has been
\* turned to 270 degrees
C32_Witness ==
    /\ document.kind = "Raster"
    /\ last.op = "rotate_to"
    /\ last.arg = <<"Cw270", Standard("Cw90")>>
    /\ origin.exact
    /\ origin.unflipped
    /\ origin.image.w # origin.image.h
    /\ document.document = rotate270(origin.image)

\* C33: reset_document_transforms restores a Raster to its original pixels
\* after any sequence of quantized rotate and flip operations: the buffer
\* equals the image as loaded, or as last cropped.
C33_ResetRestoresPixels ==
    (/\ last.op = "reset"
     /\ document.kind = "Raster"
     /\ origin.exact)
    => document.document = origin.image

(***************************************************************************)
(* Properties of the collection's index.                                   *)
(***************************************************************************)
\* C36: in every reachable DocumentCollection state current_index is None
\* exactly when the path list is empty and otherwise a valid index, so
\* current_path() is Some whenever the collection is non-empty.
C36_IndexValidIffNonEmpty ==
    /\ collection.current_index = NoIndex <=> collection.paths = <<>>
    /\ collection.current_index # NoIndex
          => collection.current_index \in 0..(Len(collection.paths) - 1)
    /\ collection.paths # <<>>
          => Collection_current_path(collection) \in PathNames

\* the current last item of three was removed and the index fell back to
\* the new last item
C36_Witness ==
    /\ clast.op = "remove_at"
    /\ Len(clast.pre.paths) = 3
    /\ clast.pre.current_index = 2
    /\ clast.arg = 2
    /\ collection.current_index = 1
    /\ Collection_current_path(collection) = collection.paths[2]

\* C37: in every reachable DocumentManager state, failed opens included,
\* whenever a document is open and current_index is Some(i), i is below
\* folder_entries.len() and folder_entries[i] is current_path.
C37_IndexNamesCurrentPath ==
    (manager.current_document # NoDoc /\ manager.current_index # NoIndex)
    => /\ manager.current_index < Len(manager.folder_entries)
       /\ manager.folder_entries[manager.current_index + 1] = manager.current_path

\* C38: NavigateCommand.can_execute is true exactly when execute would
\* navigate to another document; whenever it is false, execute returns
\* Ok(None) and leaves the current document, path and index unchanged.
C38_CanExecuteMeansNavigates ==
    mlast.op = "navigate"
    => /\ mlast.can_execute <=> mlast.ret # NoPath
       /\ ~mlast.can_execute
             => /\ mlast.ret = NoPath
                /\ SameDocumentPathIndex(manager, mlast.pre)

(***************************************************************************)
(* Properties of the crop selection.                                       *)
(***************************************************************************)
\* the region lies inside the canvas bounds
RegionInsideBounds(r, W, H) ==
    /\ r[1] >= 0 /\ r[2] >= 0 /\ r[3] >= 0 /\ r[4] >= 0
    /\ r[1] + r[3] <= W /\ r[2] + r[4] <= H

\* the selection's region, when there is one, lies inside the canvas
RegionStaysInsideBounds ==
    crop.selection.region # NoRegion
    => RegionInsideBounds(crop.selection.region, MaxCanvas, MaxCanvas)

\* update_drag without a drag in progress changes nothing
IdleUpdateChangesNothing ==
    (slast'.op = "update_drag" /\ ~crop.selection.is_dragging) => crop' = crop

\* C40: during drags that start inside [0,W]x[0,H] and are updated with
\* bounds (W, H) the region always has x >= 0, y >= 0, width >= 0,
\* height >= 0, x + width <= W and y + height <= H; update_drag without an
\* active drag changes nothing.
C40_RegionStaysInsideBounds ==
    []RegionStaysInsideBounds /\ [][IdleUpdateChangesNothing]_vars

(***************************************************************************)
(* Properties of the update loop.                                          *)
(***************************************************************************)
\* a navigation or transform message handled in Crop mode changes neither
\* the manager's document, path and index nor the document's transform
\* state and pixels
IgnoredInCropMode ==
    (app.tool_mode = "Crop" /\ ulast'.op \in {"navigate", "transform"})
    => /\ SameDocumentPathIndex(manager', manager)
       /\ document' = document

\* C34: in Crop tool mode NextDocument, PrevDocument, RotateCW, RotateCCW,
\* FlipHorizontal and FlipVertical are ignored: the manager's current
\* document, path and index and the document's transform state and pixels
\* are unchanged by them.
C34_CropModeIgnoresNavigationAndTransforms == [][IgnoredInCropMode]_vars

\* a transform message arrived in Crop mode with a document open
C34_Witness ==
    /\ app.tool_mode = "Crop"
    /\ ulast.op = "transform"
    /\ ~ulast.ok
    /\ document.kind = "Raster"
    /\ manager.current_index = 1

\* C35: after a successful rotate or flip message the cached
\* current_dimensions are the width and height of the cached
\* current_image_handle.
C35_CachedDimensionsMatchHandle ==
    (ulast.op = "transform" /\ ulast.ok)
    => app.current_dimensions =
           <<app.current_image_handle.w, app.current_image_handle.h>>

\* the tool mode becomes Crop
EntersCropMode == app.tool_mode # "Crop" /\ app'.tool_mode = "Crop"

\* ApplyCrop cropped the document with a selection drawn before the
\* document last changed
AppliedStaleSelection == ulast.op = "apply_crop" /\ ulast.ok /\ ulast.was_stale

\* C39: whenever the tool mode becomes Crop (StartCrop or ToggleCropMode)
\* the crop selection is empty, so ApplyCrop never applies a selection drawn
\* before an intervening navigation, rotation or flip.
C39_CropModeStartsWithoutSelection ==
    /\ [][EntersCropMode => app'.crop_selection.region = NoRegion]_vars
    /\ []~AppliedStaleSelection

====
